---------------------------- MODULE Spec2Model ----------------------------
(***************************************************************************)
(* A model of nifti-finder: path predicates (filters/unit.py), their       *)
(* AND/OR composition (filters/compose.py), the co-location predicate and  *)
(* its search-location mini-language, and the lazy scan of explorers/core. *)
(*                                                                         *)
(* Strings are TLC strings (Len, \o and SubSeq act on them); a path is a   *)
(* record [abs, parts] as pathlib parses it; the result of a call is a     *)
(* record [exc, val]: exc = "none" when the call returned val, else the    *)
(* name of the exception it raised.                                        *)
(***************************************************************************)
EXTENDS Integers, Sequences, FiniteSets, TLC

VARIABLES
    dirs,       \* filesystem: the directories that exist (absolute part sequences)
    files,      \* filesystem: the regular files that exist
    denied,     \* filesystem: directories the process has no permission to enter
    fsChanges,  \* how many times the environment has changed the tree
    phase,      \* unit evaluation: "idle", "ready" (predicate built), "done" (called)
    flt,        \* unit evaluation: the Include-variant predicate being evaluated
    path,       \* unit evaluation: the path string handed to the predicate
    lib,        \* unit evaluation: what pathlib did on the access failures met
    incl,       \* unit evaluation: result of the Include variant
    excl,       \* unit evaluation: result of the Exclude variant
    target,     \* unit evaluation: the target directory the co-location rule resolved,
                \* and how many tree changes had happened when the call ran (gen)
    tree,       \* composition: the ComposeFilter the caller has built
    cpc,        \* composition: "idle", "flattened", "calling" or "returned"
    cpath,      \* composition: the path the composite is called on
    cidx,       \* composition: the child the running all()/any() pulls next
    clog,       \* composition: the children evaluated by the call, with their results
    cres,       \* composition: what the call returned
    flat,       \* composition: the result of tree.flatten()
    explorer,   \* scan: the explorer, its glob patterns and its filters
    spc,        \* scan: "idle", "created" (generator not started), "running", "exhausted", "raised"
    sroot,      \* scan: the root_dir handed to scan()
    slib,       \* scan: what pathlib does on the access failures it meets
    sorder,     \* scan: the order in which the OS lists directory entries
    spi,        \* scan: the pattern being walked
    spending,   \* scan: the matches of that pattern not looked at yet
    slog,       \* scan: the candidates looked at so far and what became of each
    sres,       \* scan: the exception that ended the generator, if any
    subjects,   \* scan: the stage-1 directories of a two-stage scan, in listing order
    ssi,        \* scan: the stage-1 directory being walked (0 in a one-stage scan)
    fset,       \* filter set: the explorer's list of filters (self._filters)
    flogic,     \* filter set: the logic the explorer was configured with
    fprev,      \* filter set: the list as it stood before the last operation
    fop,        \* filter set: the last operation, its argument and its outcome
    fview,      \* filter set: the object filters() handed to the caller
    consumer,   \* materialisation: the MaterializeMixin method running, and its argument
    mpc,        \* materialisation: "none", "pulling", "returned" or "raised"
    collected,  \* materialisation: the paths collected so far (items, n, the batch being filled)
    batches,    \* materialisation: the batches batched() has yielded so far
    mres,       \* materialisation: what the method returned
    started     \* materialisation: the explorer's filters when the scan was made

fsVars   == <<dirs, files, denied, fsChanges>>
unitVars == <<phase, flt, path, lib, incl, excl, target>>
composeVars == <<tree, cpc, cpath, cidx, clog, cres, flat>>
filterVars == <<fset, flogic, fprev, fop, fview>>
scanVars == <<explorer, spc, sroot, slib, sorder, spi, spending, slog, sres, subjects, ssi>>
materializeVars == <<consumer, mpc, collected, batches, mres, started>>
vars     == <<dirs, files, denied, fsChanges, phase, flt, path, lib, incl, excl, target,
              tree, cpc, cpath, cidx, clog, cres, flat,
              explorer, spc, sroot, slib, sorder, spi, spending, slog, sres, subjects, ssi,
              fset, flogic, fprev, fop, fview,
              consumer, mpc, collected, batches, mres, started>>

-----------------------------------------------------------------------------
(* Bounds *)

MaxFsChanges == 1
\* how deep the caller nests composites
MaxDepth == 3
\* how many filters the explorer's list is grown to
MaxFilters == 3

-----------------------------------------------------------------------------
(* Results of a call *)

Ret(v)   == [exc |-> "none", val |-> v]
Raise(e) == [exc |-> e, val |-> FALSE]
Pending  == [exc |-> "pending", val |-> FALSE]

\* Python's `not r`: the negation of a returned value; an exception propagates
NotResult(r) == IF r.exc = "none" THEN Ret(~r.val) ELSE r

-----------------------------------------------------------------------------
(* str methods *)

startswith(s, p) == Len(p) <= Len(s) /\ SubSeq(s, 1, Len(p)) = p
endswith(s, p)   == Len(p) <= Len(s) /\ SubSeq(s, Len(s) - Len(p) + 1, Len(s)) = p
removeprefix(s, p) == IF startswith(s, p) THEN SubSeq(s, Len(p) + 1, Len(s)) ELSE s
removesuffix(s, p) == IF endswith(s, p) THEN SubSeq(s, 1, Len(s) - Len(p)) ELSE s
CharAt(s, i) == SubSeq(s, i, i)

-----------------------------------------------------------------------------
(* pathlib: pure paths *)

RECURSIVE SplitFrom(_, _, _)
\* str.split on "/", empty components dropped
SplitFrom(s, i, cur) ==
    IF i > Len(s) THEN (IF cur = "" THEN <<>> ELSE <<cur>>)
    ELSE IF CharAt(s, i) = "/"
         THEN (IF cur = "" THEN <<>> ELSE <<cur>>) \o SplitFrom(s, i + 1, "")
         ELSE SplitFrom(s, i + 1, cur \o CharAt(s, i))

\* Path(s): anchored when s starts with "/", "." components dropped
Path(s) == [abs |-> startswith(s, "/"),
            parts |-> SelectSeq(SplitFrom(s, 1, ""), LAMBDA c : c # ".")]

\* p / q: an absolute right operand replaces the left one
Truediv(p, q) == IF q.abs THEN q ELSE [abs |-> p.abs, parts |-> p.parts \o q.parts]

Parent(p) == [abs |-> p.abs,
              parts |-> IF p.parts = <<>> THEN <<>> ELSE SubSeq(p.parts, 1, Len(p.parts) - 1)]

Name(p) == IF p.parts = <<>> THEN "" ELSE p.parts[Len(p.parts)]

\* p.parents: the ancestors, nearest first; the anchor (or ".") last
Parents(p) == [i \in 1..Len(p.parts) |->
                 [abs |-> p.abs, parts |-> SubSeq(p.parts, 1, Len(p.parts) - i)]]

RECURSIVE JoinParts(_)
JoinParts(parts) ==
    IF parts = <<>> THEN ""
    ELSE IF Len(parts) = 1 THEN parts[1]
    ELSE parts[1] \o "/" \o JoinParts(Tail(parts))

\* str(p)
Str(p) == IF p.abs THEN "/" \o JoinParts(p.parts)
          ELSE IF p.parts = <<>> THEN "." ELSE JoinParts(p.parts)

IsPrefix(a, b) == Len(a) <= Len(b) /\ SubSeq(b, 1, Len(a)) = a

\* p.relative_to(root): the remainder, or ValueError when p is not under root
relative_to(p, root) ==
    IF p.abs = root.abs /\ IsPrefix(root.parts, p.parts)
    THEN [exc |-> "none",
          val |-> [abs |-> FALSE, parts |-> SubSeq(p.parts, Len(root.parts) + 1, Len(p.parts))]]
    ELSE [exc |-> "ValueError", val |-> [abs |-> FALSE, parts |-> <<>>]]

\* the process's working directory
Cwd == [abs |-> TRUE, parts |-> <<"t">>]

RECURSIVE Collapse(_, _)
\* ".." steps back one component; at the anchor it stays there
Collapse(parts, acc) ==
    IF parts = <<>> THEN acc
    ELSE IF Head(parts) = ".."
         THEN Collapse(Tail(parts), IF acc = <<>> THEN <<>> ELSE SubSeq(acc, 1, Len(acc) - 1))
         ELSE Collapse(Tail(parts), Append(acc, Head(parts)))

\* Path.resolve() (non-strict; the modelled trees hold no symlinks)
Resolve(p) == [abs |-> TRUE, parts |-> Collapse(Truediv(Cwd, p).parts, <<>>)]

\* utils.resolve_path: normalise a str or Path to an absolute, resolved Path
resolve_path(p) == Resolve(p)

RECURSIVE FirstDot(_, _)
FirstDot(s, i) == IF i > Len(s) THEN 0 ELSE IF CharAt(s, i) = "." THEN i ELSE FirstDot(s, i + 1)

RECURSIVE LStripDots(_)
LStripDots(s) == IF startswith(s, ".") THEN LStripDots(SubSeq(s, 2, Len(s))) ELSE s

\* utils.get_ext: the full multi-part suffix of the file name (".nii.gz")
get_ext(p) ==
    LET name == Name(p)
        bare == LStripDots(name)
        k    == FirstDot(bare, 1)
    IN  IF endswith(name, ".") \/ k = 0 THEN "" ELSE SubSeq(bare, k, Len(bare))

-----------------------------------------------------------------------------
(* re.match over the pattern alphabet: literals, "." and a postfix "*" *)

\* re.compile rejects a "*" with nothing to repeat, and a repeated "*"
ReMalformed(re) ==
    \E i \in 1..Len(re) : CharAt(re, i) = "*" /\ (i = 1 \/ CharAt(re, i - 1) = "*")

RECURSIVE ReMatchFrom(_, _, _, _)
\* the pattern from i matches a prefix of s from j (match anchors the start only)
ReMatchFrom(re, i, s, j) ==
    IF i > Len(re) THEN TRUE
    ELSE LET c    == CharAt(re, i)
             star == i < Len(re) /\ CharAt(re, i + 1) = "*"
             here == j <= Len(s) /\ (c = "." \/ c = CharAt(s, j))
         IN  IF star
             THEN ReMatchFrom(re, i + 2, s, j) \/ (here /\ ReMatchFrom(re, i, s, j + 1))
             ELSE here /\ ReMatchFrom(re, i + 1, s, j + 1)

\* re.match(regex, s) is not None
re_match(re, s) == IF ReMalformed(re) THEN Raise("re.error") ELSE Ret(ReMatchFrom(re, 1, s, 1))

-----------------------------------------------------------------------------
(* glob patterns over one name: "*" any run, "?" any one character *)

RECURSIVE FnMatch(_, _, _, _)
FnMatch(pat, i, name, j) ==
    IF i > Len(pat) THEN j > Len(name)
    ELSE IF CharAt(pat, i) = "*"
         THEN FnMatch(pat, i + 1, name, j) \/ (j <= Len(name) /\ FnMatch(pat, i, name, j + 1))
         ELSE /\ j <= Len(name)
              /\ (CharAt(pat, i) = "?" \/ CharAt(pat, i) = CharAt(name, j))
              /\ FnMatch(pat, i + 1, name, j + 1)

-----------------------------------------------------------------------------
(* The filesystem: the tree the process sees, as sets of absolute part sequences *)

Parts(s) == Path(s).parts

InitDirs ==
    { Parts("/"), Parts("/data"), Parts("/data/s1"), Parts("/data/s1/ses-1"),
      Parts("/data/s1/ses-1/labels"), Parts("/data/s1/labels"),
      Parts("/data/s2"), Parts("/data/s2/ses-1"),
      Parts("/labels"), Parts("/labels/s1"), Parts("/labels/s1/ses-1"),
      Parts("/labels/s2"), Parts("/labels/s2/ses-1"), Parts("/labels/s2/ses-1/seg_d"),
      Parts("/other"), Parts("/other/x"),
      Parts("/t"), Parts("/t/data"), Parts("/t/data_suffix"), Parts("/t/prefix_data") }

InitFiles ==
    { Parts("/data/s1/ses-1/t1.nii.gz"), Parts("/data/s1/ses-1/other.json"),
      Parts("/data/s1/ses-1/labels/t1_seg.nii.gz"), Parts("/data/s1/labels/t1_seg.nii.gz"),
      Parts("/data/s2/ses-1/t1.nii.gz"),
      Parts("/labels/s1/ses-1/t1_seg.nii.gz"),
      Parts("/other/x/t1.nii.gz"),
      Parts("/t/data/file0.txt"), Parts("/t/data/file1.nii.gz"),
      Parts("/t/data/file2_suffix.nii.gz"),
      Parts("/t/data_suffix/ignore_suffix_file5.nii.gz"),
      Parts("/t/prefix_data/prefix_file6.nii.gz") }

\* the directories the environment may remove, replace or close
Volatile ==
    { Parts("/labels"), Parts("/labels/s1/ses-1"), Parts("/data/s1/labels"),
      Parts("/data/s1/ses-1") }

ProperPrefixes(d) == { SubSeq(d, 1, k) : k \in 0..(Len(d) - 1) }

\* stat(d) succeeds: every directory on the way to d may be entered
Reachable(d) == ProperPrefixes(d) \cap denied = {}

\* os.scandir(d): the entries directly in d
Children(d) == { c \in dirs \cup files : Len(c) = Len(d) + 1 /\ IsPrefix(d, c) }

\* any entry counts, a directory as well
IsEntry(p) == p \in dirs \cup files /\ Reachable(p)

\* p.is_file()
is_file(p) == p \in files /\ Reachable(p)

\* p.is_dir()
is_dir(p) == p \in dirs /\ Reachable(p)

\* what pathlib did on the access failures it met: an EACCES from stat either
\* propagates as PermissionError or is swallowed (it depends on the interpreter's
\* pathlib); a directory that vanishes under a listing either ends the listing
\* or raises FileNotFoundError
LibBehaviours == [eacces : {"raise", "empty"}, enoent : {"raise", "empty"}]

\* target_dir.glob(pattern), pattern a single name pattern: the matching entries
glob(t, pattern, lb) ==
    IF pattern = "" THEN [exc |-> "ValueError", val |-> {}]
    ELSE IF ~Reachable(t.parts)
         THEN [exc |-> IF lb.eacces = "raise" THEN "PermissionError" ELSE "none", val |-> {}]
    ELSE IF t.parts \in files THEN [exc |-> "none", val |-> {}]
    ELSE IF t.parts \notin dirs
         THEN [exc |-> IF lb.enoent = "raise" THEN "FileNotFoundError" ELSE "none", val |-> {}]
    ELSE IF t.parts \in denied THEN [exc |-> "none", val |-> {}]
    ELSE [exc |-> "none",
          val |-> { c \in Children(t.parts) : FnMatch(pattern, 1, c[Len(c)], 1) }]

-----------------------------------------------------------------------------
(* filters/unit.py: the Include predicates.  f is the predicate (its dataclass  *)
(* fields), filepath the Path it is called on.                                  *)

IncludeExtension(f, filepath) == Ret(get_ext(filepath) = f.extension)

IncludeFileSuffix(f, filepath) ==
    LET name_only == removesuffix(Name(filepath), get_ext(filepath))
    IN  Ret(endswith(name_only, f.suffix))

IncludeFilePrefix(f, filepath) == Ret(startswith(Name(filepath), f.prefix))

IncludeFileRegex(f, filepath) == re_match(f.regex, Name(filepath))

IncludeDirectorySuffix(f, filepath) ==
    LET ds == Parents(filepath)
    IN  IF Len(ds) = 0 THEN Ret(FALSE)
        ELSE Ret(\E i \in 1..Len(ds) : endswith(Name(ds[i]), f.suffix))

IncludeDirectoryPrefix(f, filepath) ==
    LET ds == Parents(filepath)
    IN  IF Len(ds) = 0 THEN Ret(FALSE)
        ELSE Ret(\E i \in 1..Len(ds) : startswith(Name(ds[i]), f.prefix))

\* any() over a generator of re.match calls: the first call compiles the pattern
IncludeDirectoryRegex(f, filepath) ==
    LET ds == Parents(filepath)
    IN  IF Len(ds) = 0 THEN Ret(FALSE)
        ELSE IF ReMalformed(f.regex) THEN Raise("re.error")
        ELSE Ret(\E i \in 1..Len(ds) : re_match(f.regex, Str(ds[i])).val)

\* the mirrored target re-roots the whole parent: the source root is not stripped
TargetDirKeepsRoot(f, fp) ==
    LET si == f.search_in
        ok(d) == [exc |-> "none", val |-> d]
    IN  IF si = "--" THEN ok(Parent(fp))
        ELSE IF startswith(si, "--")
             THEN ok(resolve_path(Truediv(Parent(fp), Path(removeprefix(si, "--")))))
        ELSE IF endswith(si, "--")
             THEN LET mirror_root == resolve_path(Path(removesuffix(si, "--")))
                      src_root == resolve_path(IF f.mirror_relative_to = ""
                                               THEN Path("/") ELSE Path(f.mirror_relative_to))
                      rel == relative_to(Parent(fp), src_root)
                  IN  IF rel.exc = "ValueError"
                      THEN [exc |-> "ValueError", val |-> Parent(fp)]
                      ELSE ok(Truediv(mirror_root, relative_to(Parent(fp), Path("/")).val))
        ELSE LET p == Path(si)
             IN  ok(IF p.abs THEN p ELSE resolve_path(Truediv(Parent(fp), p)))

\* the relative target is joined onto the file itself, not onto its parent
TargetDirFromFile(f, fp) ==
    LET si == f.search_in
        ok(d) == [exc |-> "none", val |-> d]
    IN  IF si = "--" THEN ok(Parent(fp))
        ELSE IF startswith(si, "--")
             THEN ok(resolve_path(Truediv(fp, Path(removeprefix(si, "--")))))
        ELSE IF endswith(si, "--")
             THEN LET mirror_root == resolve_path(Path(removesuffix(si, "--")))
                      src_root == resolve_path(IF f.mirror_relative_to = ""
                                               THEN Path("/") ELSE Path(f.mirror_relative_to))
                      rel == relative_to(Parent(fp), src_root)
                  IN  IF rel.exc = "ValueError"
                      THEN [exc |-> "ValueError", val |-> Parent(fp)]
                      ELSE ok(Truediv(mirror_root, rel.val))
        ELSE LET p == Path(si)
             IN  ok(IF p.abs THEN p ELSE resolve_path(Truediv(Parent(fp), p)))

\* the search_in mini-language: the directory to look in, or ValueError when the
\* file's parent is not under mirror_relative_to.  fp is the resolved file path.
TargetDir(f, fp) ==
    LET si == f.search_in
        ok(d) == [exc |-> "none", val |-> d]
    IN  IF si = "--" THEN ok(Parent(fp))
        ELSE IF startswith(si, "--")
             THEN ok(resolve_path(Truediv(Parent(fp), Path(removeprefix(si, "--")))))
        ELSE IF endswith(si, "--")
             THEN LET mirror_root == resolve_path(Path(removesuffix(si, "--")))
                      src_root == resolve_path(IF f.mirror_relative_to = ""
                                               THEN Path("/") ELSE Path(f.mirror_relative_to))
                      rel == relative_to(Parent(fp), src_root)
                  IN  IF rel.exc = "ValueError"
                      THEN [exc |-> "ValueError", val |-> Parent(fp)]
                      ELSE ok(Truediv(mirror_root, rel.val))
        ELSE LET p == Path(si)
             IN  ok(IF p.abs THEN p ELSE resolve_path(Truediv(Parent(fp), p)))

\* the ValueError of relative_to is not caught
IncludeIfFileExistsNoCatch(f, filepath, lb) ==
    LET fp  == Resolve(filepath)
        tgt == TargetDir(f, fp)
        pattern == IF f.filename_pattern = "--" THEN Name(fp) ELSE f.filename_pattern
        g   == glob(tgt.val, pattern, lb)
    IN  IF tgt.exc = "ValueError" THEN Raise("ValueError")
        ELSE IF g.exc = "FileNotFoundError" THEN Ret(FALSE)
        ELSE IF g.exc # "none" THEN Raise(g.exc)
        ELSE Ret(\E p \in g.val : is_file(p))

IncludeIfFileExists(f, filepath, lb) ==
    LET fp  == Resolve(filepath)
        tgt == TargetDir(f, fp)
        pattern == IF f.filename_pattern = "--" THEN Name(fp) ELSE f.filename_pattern
        g   == glob(tgt.val, pattern, lb)
    IN  IF tgt.exc = "ValueError" THEN Ret(FALSE)
        ELSE IF g.exc = "FileNotFoundError" THEN Ret(FALSE)
        ELSE IF g.exc # "none" THEN Raise(g.exc)
        ELSE Ret(\E p \in g.val : is_file(p))

-----------------------------------------------------------------------------
(* filters/unit.py: the Exclude predicates, subclasses that negate the parent's call *)

ExcludeExtension(f, filepath) == NotResult(IncludeExtension(f, filepath))

ExcludeFileSuffix(f, filepath) == NotResult(IncludeFileSuffix(f, filepath))

ExcludeFilePrefix(f, filepath) == NotResult(IncludeFilePrefix(f, filepath))

ExcludeFileRegex(f, filepath) == NotResult(IncludeFileRegex(f, filepath))

ExcludeDirectorySuffix(f, filepath) == NotResult(IncludeDirectorySuffix(f, filepath))

ExcludeDirectoryPrefix(f, filepath) == NotResult(IncludeDirectoryPrefix(f, filepath))

ExcludeDirectoryRegex(f, filepath) == NotResult(IncludeDirectoryRegex(f, filepath))

\* a separate implementation of the exclusion that inverts only the final test
ExcludeIfFileExistsDrift(f, filepath, lb) ==
    LET fp  == Resolve(filepath)
        tgt == TargetDir(f, fp)
        pattern == IF f.filename_pattern = "--" THEN Name(fp) ELSE f.filename_pattern
        g   == glob(tgt.val, pattern, lb)
    IN  IF tgt.exc = "ValueError" THEN Ret(FALSE)
        ELSE IF g.exc = "FileNotFoundError" THEN Ret(FALSE)
        ELSE IF g.exc # "none" THEN Raise(g.exc)
        ELSE Ret(~(\E p \in g.val : is_file(p)))

ExcludeIfFileExists(f, filepath, lb) == NotResult(IncludeIfFileExists(f, filepath, lb))

-----------------------------------------------------------------------------
(* Constructors: the dataclass fields of each predicate *)

\* IncludeExtension.__post_init__ puts the leading dot
NewExtension(cls, extension) ==
    [cls |-> cls,
     extension |-> IF startswith(extension, ".") THEN extension ELSE "." \o extension]

NewFileSuffix(cls, suffix) == [cls |-> cls, suffix |-> suffix]
NewFilePrefix(cls, prefix) == [cls |-> cls, prefix |-> prefix]
NewFileRegex(cls, regex) == [cls |-> cls, regex |-> regex]
NewDirectorySuffix(cls, suffix) == [cls |-> cls, suffix |-> suffix]
NewDirectoryPrefix(cls, prefix) == [cls |-> cls, prefix |-> prefix]
NewDirectoryRegex(cls, regex) == [cls |-> cls, regex |-> regex]

\* mirror_relative_to = "" stands for None (both are falsy in `or Path("/")`)
NewIfFileExists(cls, filename_pattern, search_in, mirror_relative_to) ==
    [cls |-> cls, filename_pattern |-> filename_pattern, search_in |-> search_in,
     mirror_relative_to |-> mirror_relative_to]

\* the Exclude subclass of an Include class, and back
ExcludeOf(f) == [f EXCEPT !.cls = "Exclude" \o removeprefix(f.cls, "Include")]

-----------------------------------------------------------------------------
(* filters/compose.py *)

ComposeFilter(filters, logic) == [cls |-> "ComposeFilter", filters |-> filters, logic |-> logic]

IdentityAlwaysTrue(f) == TRUE

\* ComposeFilter._identity
Identity(f) == IF f.logic = "AND" THEN TRUE ELSE FALSE

RECURSIVE Call(_, _, _)
RECURSIVE AllFrom(_, _, _, _)
RECURSIVE AnyFrom(_, _, _, _)

\* all(flt(filepath) for flt in filters), from the i-th on: stops at the first
\* false, and an exception ends it
AllFrom(filters, i, filepath, lb) ==
    IF i > Len(filters) THEN Ret(TRUE)
    ELSE LET r == Call(filters[i], filepath, lb)
         IN  IF r.exc # "none" THEN r
             ELSE IF ~r.val THEN Ret(FALSE)
             ELSE AllFrom(filters, i + 1, filepath, lb)

\* any(flt(filepath) for flt in filters), from the i-th on
AnyFrom(filters, i, filepath, lb) ==
    IF i > Len(filters) THEN Ret(FALSE)
    ELSE LET r == Call(filters[i], filepath, lb)
         IN  IF r.exc # "none" THEN r
             ELSE IF r.val THEN Ret(TRUE)
             ELSE AnyFrom(filters, i + 1, filepath, lb)

\* ComposeFilter.__call__
ComposeCall(f, filepath, lb) ==
    IF f.filters = <<>> THEN Ret(Identity(f))
    ELSE IF f.logic = "AND" THEN AllFrom(f.filters, 1, filepath, lb)
    ELSE AnyFrom(f.filters, 1, filepath, lb)

RECURSIVE FlattenLoop(_, _, _)
\* the while loop of flatten: pop the last of the stack; a composite of the same
\* logic is replaced by its children, anything else is collected
FlattenLoop(stack, acc, logic) ==
    IF stack = <<>> THEN acc
    ELSE LET f    == stack[Len(stack)]
             rest == SubSeq(stack, 1, Len(stack) - 1)
         IN  IF f.cls = "ComposeFilter" /\ f.logic = logic
             THEN FlattenLoop(rest \o f.filters, acc, logic)
             ELSE FlattenLoop(rest, Append(acc, f), logic)

Reverse(q) == [i \in 1..Len(q) |-> q[Len(q) + 1 - i]]

\* the collected predicates are not put back in order
FlattenNoReverse(c) == ComposeFilter(FlattenLoop(c.filters, <<>>, c.logic), c.logic)

RECURSIVE FlattenLoopAnyLogic(_, _)
FlattenLoopAnyLogic(stack, acc) ==
    IF stack = <<>> THEN acc
    ELSE LET f    == stack[Len(stack)]
             rest == SubSeq(stack, 1, Len(stack) - 1)
         IN  IF f.cls = "ComposeFilter"
             THEN FlattenLoopAnyLogic(rest \o f.filters, acc)
             ELSE FlattenLoopAnyLogic(rest, Append(acc, f))

\* every child composite is spliced, whatever its logic
FlattenAnyLogic(c) == ComposeFilter(Reverse(FlattenLoopAnyLogic(c.filters, <<>>)), c.logic)

RECURSIVE SpliceOnce(_, _)
SpliceOnce(filters, logic) ==
    IF filters = <<>> THEN <<>>
    ELSE LET f == Head(filters)
         IN  (IF f.cls = "ComposeFilter" /\ f.logic = logic THEN f.filters ELSE <<f>>)
               \o SpliceOnce(Tail(filters), logic)

\* only the direct children are spliced: their own same-logic children stay nested
FlattenOneLevel(c) == ComposeFilter(SpliceOnce(c.filters, c.logic), c.logic)

\* ComposeFilter.flatten
flatten(c) == ComposeFilter(Reverse(FlattenLoop(c.filters, <<>>, c.logic)), c.logic)

\* flt(filepath): dispatch on the predicate's class
Call(f, filepath, lb) ==
    CASE f.cls = "IncludeExtension"       -> IncludeExtension(f, filepath)
      [] f.cls = "IncludeFileSuffix"      -> IncludeFileSuffix(f, filepath)
      [] f.cls = "IncludeFilePrefix"      -> IncludeFilePrefix(f, filepath)
      [] f.cls = "IncludeFileRegex"       -> IncludeFileRegex(f, filepath)
      [] f.cls = "IncludeDirectorySuffix" -> IncludeDirectorySuffix(f, filepath)
      [] f.cls = "IncludeDirectoryPrefix" -> IncludeDirectoryPrefix(f, filepath)
      [] f.cls = "IncludeDirectoryRegex"  -> IncludeDirectoryRegex(f, filepath)
      [] f.cls = "IncludeIfFileExists"    -> IncludeIfFileExists(f, filepath, lb)
      [] f.cls = "ExcludeExtension"       -> ExcludeExtension(f, filepath)
      [] f.cls = "ExcludeFileSuffix"      -> ExcludeFileSuffix(f, filepath)
      [] f.cls = "ExcludeFilePrefix"      -> ExcludeFilePrefix(f, filepath)
      [] f.cls = "ExcludeFileRegex"       -> ExcludeFileRegex(f, filepath)
      [] f.cls = "ExcludeDirectorySuffix" -> ExcludeDirectorySuffix(f, filepath)
      [] f.cls = "ExcludeDirectoryPrefix" -> ExcludeDirectoryPrefix(f, filepath)
      [] f.cls = "ExcludeDirectoryRegex"  -> ExcludeDirectoryRegex(f, filepath)
      [] f.cls = "ExcludeIfFileExists"    -> ExcludeIfFileExists(f, filepath, lb)
      [] f.cls = "ComposeFilter"          -> ComposeCall(f, filepath, lb)

-----------------------------------------------------------------------------
(* The environment changes the tree under the process *)

Subtree(d) == { c \in dirs \cup files : IsPrefix(d, c) }

\* "target directory vanished"
FsRemove(d) ==
    /\ fsChanges < MaxFsChanges
    /\ d \in dirs
    /\ dirs' = dirs \ Subtree(d)
    /\ files' = files \ Subtree(d)
    /\ denied' = denied \ Subtree(d)
    /\ fsChanges' = fsChanges + 1

\* the directory gives way to a regular file of the same name
FsReplaceByFile(d) ==
    /\ fsChanges < MaxFsChanges
    /\ d \in dirs
    /\ dirs' = dirs \ Subtree(d)
    /\ files' = (files \ Subtree(d)) \cup {d}
    /\ denied' = denied \ Subtree(d)
    /\ fsChanges' = fsChanges + 1

\* chmod 000: the directory can be neither listed nor entered
FsDeny(d) ==
    /\ fsChanges < MaxFsChanges
    /\ d \in dirs \ denied
    /\ denied' = denied \cup {d}
    /\ UNCHANGED <<dirs, files>>
    /\ fsChanges' = fsChanges + 1

FsInit ==
    /\ dirs = InitDirs
    /\ files = InitFiles
    /\ denied = {}
    /\ fsChanges = 0

-----------------------------------------------------------------------------
(* Evaluating one predicate, and its Exclude twin, on one path *)

SimpleFilters ==
    { NewExtension("IncludeExtension", "nii.gz"), NewExtension("IncludeExtension", ".txt"),
      NewFileSuffix("IncludeFileSuffix", "suffix"), NewFileSuffix("IncludeFileSuffix", "file0"),
      NewFilePrefix("IncludeFilePrefix", "prefix"), NewFilePrefix("IncludeFilePrefix", "file"),
      NewFilePrefix("IncludeFilePrefix", "file0.t"), NewFileSuffix("IncludeFileSuffix", "0.txt"),
      NewFileRegex("IncludeFileRegex", ".*file*"), NewFileRegex("IncludeFileRegex", "prefix_.*"),
      NewFileRegex("IncludeFileRegex", "*file"),
      NewDirectorySuffix("IncludeDirectorySuffix", "suffix"),
      NewDirectorySuffix("IncludeDirectorySuffix", "data"),
      NewDirectoryPrefix("IncludeDirectoryPrefix", "prefix"),
      NewDirectoryPrefix("IncludeDirectoryPrefix", "data"),
      NewDirectoryRegex("IncludeDirectoryRegex", ".*suffix*"),
      NewDirectoryRegex("IncludeDirectoryRegex", "data"),
      NewDirectoryRegex("IncludeDirectoryRegex", "/t/pre"),
      NewDirectoryRegex("IncludeDirectoryRegex", "**") }

SimplePaths ==
    { "/t/data/file0.txt", "/t/data/file2_suffix.nii.gz",
      "/t/data_suffix/ignore_suffix_file5.nii.gz", "/t/prefix_data/prefix_file6.nii.gz",
      "data/file1.nii.gz", "file0.txt" }

ExistsFilters ==
    { NewIfFileExists("IncludeIfFileExists", "--", "--", ""),
      NewIfFileExists("IncludeIfFileExists", "*.json", "--", ""),
      NewIfFileExists("IncludeIfFileExists", "*seg*", "/labels--", "/data"),
      NewIfFileExists("IncludeIfFileExists", "*seg*", "/labels--", ""),
      NewIfFileExists("IncludeIfFileExists", "*seg*", "/labels--", "/other"),
      NewIfFileExists("IncludeIfFileExists", "*seg*", "/data/../labels--", "/data/s1/.."),
      NewIfFileExists("IncludeIfFileExists", "*seg*", "--../labels", ""),
      NewIfFileExists("IncludeIfFileExists", "*seg*", "--labels/", ""),
      NewIfFileExists("IncludeIfFileExists", "*seg*", "--labels--", ""),
      NewIfFileExists("IncludeIfFileExists", "*seg*", "/labels/s1/ses-1", ""),
      NewIfFileExists("IncludeIfFileExists", "*seg*", "labels", "") }

ExistsPaths ==
    { "/data/s1/ses-1/t1.nii.gz", "/data/s2/ses-1/t1.nii.gz", "/other/x/t1.nii.gz",
      "/data/s1/ses-1/../ses-1/t1.nii.gz" }

IsExistsFilter(f) == f.cls \in {"IncludeIfFileExists", "ExcludeIfFileExists"}

\* no access failure is met: what pathlib would do on one is immaterial
NoLib == [eacces |-> "empty", enoent |-> "empty"]

\* how the target directory stands when the predicate looks into it
Access(t) ==
    IF ~Reachable(t.parts) \/ t.parts \in denied THEN "denied"
    ELSE IF t.parts \in files THEN "notdir"
    ELSE IF t.parts \notin dirs THEN "missing"
    ELSE "ok"

NoTarget == [exc |-> "unset", val |-> Path("/"), access |-> "unset", gen |-> 0]

UnitInit ==
    /\ phase = "idle"
    /\ flt = NewFilePrefix("IncludeFilePrefix", "")
    /\ path = ""
    /\ lib = NoLib
    /\ incl = Pending
    /\ excl = Pending
    /\ target = NoTarget

\* the caller builds an Include predicate and picks the path to test
Construct(f, x) ==
    /\ phase = "idle"
    /\ phase' = "ready"
    /\ flt' = f
    /\ path' = x
    /\ UNCHANGED <<lib, incl, excl, target>>
    /\ UNCHANGED fsVars

\* one call of the predicate and one of its Exclude twin, on the same tree
Evaluate ==
    /\ phase = "ready"
    /\ \E lb \in (IF IsExistsFilter(flt) THEN LibBehaviours ELSE {NoLib}) :
         /\ lib' = lb
         /\ incl' = Call(flt, Path(path), lb)
         /\ excl' = Call(ExcludeOf(flt), Path(path), lb)
    /\ target' = IF IsExistsFilter(flt)
                 THEN LET tgt == TargetDir(flt, Resolve(Path(path)))
                      IN  [exc |-> tgt.exc, val |-> tgt.val, access |-> Access(tgt.val),
                           gen |-> fsChanges]
                 ELSE NoTarget
    /\ phase' = "done"
    /\ UNCHANGED <<flt, path>>
    /\ UNCHANGED fsVars

\* the results are dropped
Discard ==
    /\ phase = "done"
    /\ phase' = "idle"
    /\ flt' = NewFilePrefix("IncludeFilePrefix", "")
    /\ path' = ""
    /\ lib' = NoLib
    /\ incl' = Pending
    /\ excl' = Pending
    /\ target' = NoTarget
    /\ UNCHANGED fsVars

-----------------------------------------------------------------------------
(* Building, flattening and calling a ComposeFilter *)

LeafA == NewExtension("IncludeExtension", "nii.gz")
LeafB == NewFilePrefix("ExcludeFilePrefix", "prefix")
\* a predicate whose call raises (re.error)
LeafR == NewFileRegex("IncludeFileRegex", "*file")

Leaves == {LeafA, LeafB, LeafR}
NestLeaves == {LeafA, LeafB}
Logics == {"AND", "OR"}

ComposePaths == { "/t/data/file0.txt", "/t/data/file1.nii.gz", "/t/prefix_data/prefix_file6.nii.gz" }

\* the sequences of at most two leaves
LeafSeqs == {<<>>} \cup { <<a>> : a \in Leaves } \cup { <<a, b>> : a \in Leaves, b \in Leaves }

RECURSIVE Depth(_)
Depth(f) ==
    IF f.cls # "ComposeFilter" THEN 0
    ELSE IF f.filters = <<>> THEN 1
    ELSE 1 + (CHOOSE m \in { Depth(f.filters[i]) : i \in 1..Len(f.filters) } :
                \A i \in 1..Len(f.filters) : Depth(f.filters[i]) <= m)

NoFlat == ComposeFilter(<<>>, "none")

ComposeInit ==
    /\ tree = ComposeFilter(<<>>, "AND")
    /\ cpc = "idle"
    /\ cpath = ""
    /\ cidx = 0
    /\ clog = <<>>
    /\ cres = Pending
    /\ flat = NoFlat

\* ComposeFilter(filters, logic) over plain predicates
NewCompose(filters, logic) ==
    /\ cpc = "idle"
    /\ tree' = ComposeFilter(filters, logic)
    /\ UNCHANGED <<cpc, cpath, cidx, clog, cres, flat>>

\* ComposeFilter([..., tree, ...], logic): the composite built so far becomes a child
Nest(filters, logic) ==
    /\ cpc = "idle"
    /\ Depth(tree) < MaxDepth
    /\ tree' = ComposeFilter(filters, logic)
    /\ UNCHANGED <<cpc, cpath, cidx, clog, cres, flat>>

NestShapes(t) == {<<t>>} \cup { <<l, t>> : l \in NestLeaves } \cup { <<t, l>> : l \in NestLeaves }

\* tree.flatten()
Flatten ==
    /\ cpc = "idle"
    /\ flat' = flatten(tree)
    /\ cpc' = "flattened"
    /\ UNCHANGED <<tree, cpath, cidx, clog, cres>>

\* tree(filepath): an empty composite returns its identity; otherwise all()/any()
\* starts to pull from the generator over the children
CallStart(x) ==
    /\ cpc = "idle"
    /\ cpath' = x
    /\ clog' = <<>>
    /\ IF tree.filters = <<>>
       THEN cpc' = "returned" /\ cres' = Ret(Identity(tree)) /\ cidx' = 0
       ELSE cpc' = "calling" /\ cres' = Pending /\ cidx' = 1
    /\ UNCHANGED <<tree, flat>>

\* all() and any() go on to the next child whatever the last one returned
OpDecidesNever(logic, v) == FALSE

\* all() is decided by the first false, any() by the first true
OpDecides(logic, v) == IF logic = "AND" THEN ~v ELSE v

\* the generator evaluates the next child and all()/any() looks at its value
CallStep ==
    /\ cpc = "calling"
    /\ LET r == Call(tree.filters[cidx], Path(cpath), NoLib)
       IN  /\ clog' = Append(clog, [idx |-> cidx, res |-> r])
           /\ IF r.exc # "none"
              THEN cpc' = "returned" /\ cres' = r /\ cidx' = cidx
              ELSE IF OpDecides(tree.logic, r.val)
              THEN cpc' = "returned" /\ cres' = Ret(r.val) /\ cidx' = cidx
              ELSE IF cidx = Len(tree.filters)
              THEN cpc' = "returned" /\ cres' = Ret(Identity(tree)) /\ cidx' = cidx
              ELSE cpc' = "calling" /\ cres' = Pending /\ cidx' = cidx + 1
    /\ UNCHANGED <<tree, cpath, flat>>

\* the caller is done with the result
ComposeReset ==
    /\ cpc \in {"flattened", "returned"}
    /\ cpc' = "idle"
    /\ cpath' = ""
    /\ cidx' = 0
    /\ clog' = <<>>
    /\ cres' = Pending
    /\ flat' = NoFlat
    /\ UNCHANGED tree

-----------------------------------------------------------------------------
(* explorers: an explorer, and scan(root_dir) as the generator it is *)

\* Python values other than a Filter: an int, a str, a list
PyInt(n)      == [cls |-> "int", num |-> n]
PyStr(x)      == [cls |-> "str", text |-> x]
PyList(items) == [cls |-> "list", items |-> items]

\* isinstance(x, list) and isinstance(x, Filter)
IsList(x)   == x.cls = "list"
IsFilter(x) == x.cls \notin {"int", "str", "list"}

\* isinstance(obj, Sequence): a str is a Sequence as much as a list is
IsSequence(obj) == obj.cls \in {"str", "list"}

\* utils/misc.py ensure_seq: a Sequence is returned as it is
ensure_seq(obj) == IF IsSequence(obj) THEN obj ELSE PyList(<<obj>>)

\* what `for pattern in self._patterns` walks: the members of a list, the
\* characters of a str
Iterate(obj) ==
    IF obj.cls = "str" THEN [i \in 1..Len(obj.text) |-> CharAt(obj.text, i)] ELSE obj.items

\* the entries of the initial tree in the order the OS lists them
Listing ==
    << Parts("/data"), Parts("/data/s1"), Parts("/data/s1/ses-1"),
       Parts("/data/s1/ses-1/t1.nii.gz"), Parts("/data/s1/ses-1/other.json"),
       Parts("/data/s1/ses-1/labels"), Parts("/data/s1/ses-1/labels/t1_seg.nii.gz"),
       Parts("/data/s1/labels"), Parts("/data/s1/labels/t1_seg.nii.gz"),
       Parts("/data/s2"), Parts("/data/s2/ses-1"), Parts("/data/s2/ses-1/t1.nii.gz"),
       Parts("/labels"), Parts("/labels/s1"), Parts("/labels/s1/ses-1"),
       Parts("/labels/s1/ses-1/t1_seg.nii.gz"),
       Parts("/labels/s2"), Parts("/labels/s2/ses-1"), Parts("/labels/s2/ses-1/seg_d") >>

Orders == {"listed", "reversed"}

\* only the entries directly in root are looked at
GlobChildrenOnly(root, pattern, order) ==
    LET hit(c) == /\ c \in dirs \cup files
                  /\ Len(c) = Len(root.parts) + 1 /\ IsPrefix(root.parts, c)
                  /\ Reachable(c)
                  /\ FnMatch(pattern, 1, c[Len(c)], 1)
        found == SelectSeq(Listing, hit)
    IN  IF order = "listed" THEN found ELSE Reverse(found)

\* root.rglob(pattern), pattern a name pattern: the entries below root whose name
\* matches, those below a directory that cannot be entered left out
rglob(root, pattern, order) ==
    LET hit(c) == /\ c \in dirs \cup files
                  /\ c # root.parts /\ IsPrefix(root.parts, c)
                  /\ Reachable(c)
                  /\ FnMatch(pattern, 1, c[Len(c)], 1)
        found == SelectSeq(Listing, hit)
    IN  IF order = "listed" THEN found ELSE Reverse(found)

\* apply_filters: all() over the explorer's filters
apply_filters(filters, filepath, lb) == AllFrom(filters, 1, filepath, lb)

\* the predicates all() gets to evaluate on filepath: up to the first that does
\* not return true
RECURSIVE Evaluated(_, _, _, _)
Evaluated(filters, i, filepath, lb) ==
    IF i > Len(filters) THEN {}
    ELSE {i} \cup (IF Call(filters[i], filepath, lb) = Ret(TRUE)
                   THEN Evaluated(filters, i + 1, filepath, lb) ELSE {})

\* some co-location predicate evaluated on filepath found its target directory
\* missing, not a directory or closed
AccessFailure(filters, filepath, lb) ==
    \E i \in Evaluated(filters, 1, filepath, lb) :
       /\ IsExistsFilter(filters[i])
       /\ LET tgt == TargetDir(filters[i], Resolve(filepath))
          IN  tgt.exc = "none" /\ Access(tgt.val) # "ok"

MirrorSeg == NewIfFileExists("IncludeIfFileExists", "*seg*", "/labels--", "/data")

ScanPatterns == { <<"*.nii*">>, <<"t1*", "*.nii*">>, <<"*labels*">> }

ScanFilterSets ==
    { <<>>, <<MirrorSeg>>, <<ExcludeOf(MirrorSeg)>>,
      <<NewExtension("IncludeExtension", "nii.gz"), ExcludeOf(MirrorSeg)>> }

ScanRoots == { "/data", "/data/s1/ses-1/other.json", "/nowhere" }

\* pattern is the constructor's argument, patterns what the scan's loop walks
Explorer(pattern, filters) ==
    [cls |-> "GenericFilterableFileExplorer", sub_pattern |-> "",
     pattern |-> pattern, patterns |-> Iterate(ensure_seq(pattern)), filters |-> filters]

\* patterns given as one string
ScanStringPatterns == { "t1*" }

\* pathlib's way with access failures matters only to a co-location predicate
ScanLibs ==
    IF \E i \in 1..Len(explorer.filters) : IsExistsFilter(explorer.filters[i])
    THEN LibBehaviours ELSE {NoLib}

ScanInit ==
    /\ explorer = Explorer(PyStr("*"), <<>>)
    /\ spc = "idle"
    /\ sroot = ""
    /\ slib = NoLib
    /\ sorder = "listed"
    /\ spi = 0
    /\ spending = <<>>
    /\ slog = <<>>
    /\ sres = Pending
    /\ subjects = <<>>
    /\ ssi = 0

\* GenericFilterableFileExplorer(pattern=..., filters=[...])
NewExplorer(pattern, filters) ==
    /\ spc = "idle"
    /\ explorer' = Explorer(pattern, filters)
    /\ UNCHANGED <<spc, sroot, slib, sorder, spi, spending, slog, sres, subjects, ssi>>

\* explorer.scan(root_dir): the generator object is made, none of its body runs
ScanCall(root, lb, order) ==
    /\ spc = "idle"
    /\ spc' = "created"
    /\ sroot' = root
    /\ slib' = lb
    /\ sorder' = order
    /\ UNCHANGED <<explorer, spi, spending, slog, sres, subjects, ssi>>

\* the first next(): the root is resolved and checked, the first walk begins
ScanBegin ==
    /\ explorer.cls = "GenericFilterableFileExplorer"
    /\ spc = "created"
    /\ LET root == resolve_path(Path(sroot))
       IN  IF ~is_dir(root.parts)
           THEN /\ spc' = "raised"
                /\ sres' = Raise("NotADirectoryError")
                /\ UNCHANGED <<spi, spending>>
           ELSE /\ spc' = "running"
                /\ spi' = 1
                /\ spending' = rglob(root, explorer.patterns[1], sorder)
                /\ UNCHANGED sres
    /\ UNCHANGED <<explorer, sroot, slib, sorder, slog, subjects, ssi>>

\* the paths the consumer has received, in the order it received them
Yielded == LET got == SelectSeq(slog, LAMBDA e : e.yielded)
           IN  [k \in 1..Len(got) |-> got[k].path]

\* the generator looks at the next match: a regular file the filters accept is
\* yielded, an exception of the filters ends the generator
ScanCandidate ==
    /\ spc = "running"
    /\ spending # <<>>
    /\ LET c    == Head(spending)
           p    == [abs |-> TRUE, parts |-> c]
           isf  == is_file(c)
           r    == IF isf THEN apply_filters(explorer.filters, p, slib) ELSE Pending
           fail == isf /\ AccessFailure(explorer.filters, p, slib)
       IN  /\ slog' = Append(slog, [subject |-> ssi, pattern |-> spi, path |-> c,
                                    is_file |-> isf, res |-> r,
                                    failure |-> fail, yielded |-> (r = Ret(TRUE))])
           /\ IF r.exc \notin {"none", "pending"}
              THEN spc' = "raised" /\ sres' = r
              ELSE UNCHANGED <<spc, sres>>
    /\ spending' = Tail(spending)
    /\ UNCHANGED <<explorer, sroot, slib, sorder, spi, subjects, ssi>>

\* a walk is over: the next pattern's walk begins, or the generator ends
ScanNextPattern ==
    /\ explorer.cls = "GenericFilterableFileExplorer"
    /\ spc = "running"
    /\ spending = <<>>
    /\ IF spi < Len(explorer.patterns)
       THEN /\ spi' = spi + 1
            /\ spending' = rglob(resolve_path(Path(sroot)), explorer.patterns[spi + 1], sorder)
            /\ UNCHANGED spc
       ELSE /\ spc' = "exhausted"
            /\ UNCHANGED <<spi, spending>>
    /\ UNCHANGED <<explorer, sroot, slib, sorder, slog, sres, subjects, ssi>>

\* the consumer drops the generator
ScanClose ==
    /\ spc \in {"created", "running", "exhausted", "raised"}
    /\ spc' = "idle"
    /\ sroot' = ""
    /\ slib' = NoLib
    /\ sorder' = "listed"
    /\ spi' = 0
    /\ spending' = <<>>
    /\ slog' = <<>>
    /\ sres' = Pending
    /\ subjects' = <<>>
    /\ ssi' = 0
    /\ UNCHANGED explorer

-----------------------------------------------------------------------------
(* explorers/generic.py: the explorer's filter list and its operations *)

\* the outcome of an operation on the list: the list it leaves, the exception it raised
Outcome(filters, exc) == [filters |-> filters, exc |-> exc]

RECURSIVE AddFiltersPrepend(_, _)
\* the new filter goes to the front of the list
AddFiltersPrepend(filters, x) ==
    IF IsList(x)
    THEN IF x.items = <<>> THEN Outcome(filters, "none")
         ELSE LET r == AddFiltersPrepend(filters, Head(x.items))
              IN  IF r.exc # "none" THEN r
                  ELSE AddFiltersPrepend(r.filters, PyList(Tail(x.items)))
    ELSE IF ~IsFilter(x) THEN Outcome(filters, "ValueError")
    ELSE Outcome(<<x>> \o filters, "none")

RECURSIVE add_filters(_, _)
\* add_filters: a list is walked member by member (what was appended before a bad
\* member stays appended); anything else that is no Filter raises ValueError
add_filters(filters, x) ==
    IF IsList(x)
    THEN IF x.items = <<>> THEN Outcome(filters, "none")
         ELSE LET r == add_filters(filters, Head(x.items))
              IN  IF r.exc # "none" THEN r
                  ELSE add_filters(r.filters, PyList(Tail(x.items)))
    ELSE IF ~IsFilter(x) THEN Outcome(filters, "ValueError")
    ELSE Outcome(Append(filters, x), "none")

\* a value that is not in the list is passed over in silence
ListRemoveSilent(filters, x) ==
    IF \A i \in 1..Len(filters) : filters[i] # x THEN Outcome(filters, "none")
    ELSE LET i == CHOOSE k \in 1..Len(filters) :
                     filters[k] = x /\ \A j \in 1..(k - 1) : filters[j] # x
         IN  Outcome(SubSeq(filters, 1, i - 1) \o SubSeq(filters, i + 1, Len(filters)), "none")

\* list.remove(x): the first member equal to x goes; ValueError when there is none
ListRemove(filters, x) ==
    IF \A i \in 1..Len(filters) : filters[i] # x THEN Outcome(filters, "ValueError")
    ELSE LET i == CHOOSE k \in 1..Len(filters) :
                     filters[k] = x /\ \A j \in 1..(k - 1) : filters[j] # x
         IN  Outcome(SubSeq(filters, 1, i - 1) \o SubSeq(filters, i + 1, Len(filters)), "none")

RECURSIVE remove_filters(_, _)
\* remove_filters: a list is walked member by member; anything else that is no
\* Filter (an int as well) raises ValueError
remove_filters(filters, x) ==
    IF IsList(x)
    THEN IF x.items = <<>> THEN Outcome(filters, "none")
         ELSE LET r == remove_filters(filters, Head(x.items))
              IN  IF r.exc # "none" THEN r
                  ELSE remove_filters(r.filters, PyList(Tail(x.items)))
    ELSE IF ~IsFilter(x) THEN Outcome(filters, "ValueError")
    ELSE ListRemove(filters, x)

\* filters() hands out a fresh copy of the list
FiltersReturnsCopy(filters) == [held |-> TRUE, alias |-> FALSE, items |-> filters]

\* filters(): `return self._filters`, the list object itself
filters_view(filters) == [held |-> TRUE, alias |-> TRUE, items |-> filters]

NoView == [held |-> FALSE, alias |-> FALSE, items |-> <<>>]
NoOp   == [op |-> "none", arg |-> PyInt(0), exc |-> "none", val |-> FALSE]

FilterA == NewExtension("IncludeExtension", "nii.gz")
FilterB == NewExtension("IncludeExtension", "txt")
FilterC == NewFilePrefix("ExcludeFilePrefix", "prefix")
SetFilters == {FilterA, FilterB, FilterC}

AddArgs ==
    SetFilters
      \cup { PyList(<<FilterA, FilterB>>), PyList(<<FilterB, FilterA>>), PyList(<<>>),
             PyList(<<FilterA, PyInt(5)>>), PyList(<<PyInt(5)>>), PyList(<<PyStr("invalid")>>),
             PyList(<<PyList(<<FilterC>>), FilterA>>),
             PyInt(5), PyStr("invalid") }

RemoveArgs ==
    SetFilters
      \cup { NewExtension("IncludeExtension", ".nii.gz"), NewExtension("ExcludeExtension", "nii.gz"),
             PyList(<<FilterA, FilterB>>), PyList(<<PyStr("invalid")>>),
             PyInt(-1), PyInt(0), PyInt(1), PyInt(7), PyStr("invalid") }

ApplyPaths == { "/t/data/file0.txt", "/t/data/file1.nii.gz", "/t/prefix_data/prefix_file6.nii.gz",
                "/t/data/notes.json" }

FilterSetInit ==
    /\ fset = <<>>
    /\ flogic = "AND"
    /\ fprev = <<>>
    /\ fop = NoOp
    /\ fview = NoView

\* the explorer is built with logic=...; its list starts empty
NewFilterable(logic) ==
    /\ fset' = <<>>
    /\ flogic' = logic
    /\ fprev' = <<>>
    /\ fop' = NoOp
    /\ fview' = NoView

\* explorer.add_filters(x)
AddFilters(x) ==
    /\ Len(fset) < MaxFilters
    /\ LET r == add_filters(fset, x)
       IN  /\ Len(r.filters) <= MaxFilters
           /\ fset' = r.filters
           /\ fop' = [op |-> "add", arg |-> x, exc |-> r.exc, val |-> FALSE]
    /\ fprev' = fset
    /\ fview' = NoView
    /\ UNCHANGED flogic

\* explorer.remove_filters(x)
RemoveFilters(x) ==
    /\ LET r == remove_filters(fset, x)
       IN  /\ fset' = r.filters
           /\ fop' = [op |-> "remove", arg |-> x, exc |-> r.exc, val |-> FALSE]
    /\ fprev' = fset
    /\ fview' = NoView
    /\ UNCHANGED flogic

\* explorer.clear_filters()
ClearFilters ==
    /\ fset' = <<>>
    /\ fop' = [op |-> "clear", arg |-> PyInt(0), exc |-> "none", val |-> FALSE]
    /\ fprev' = fset
    /\ fview' = NoView
    /\ UNCHANGED flogic

\* view = explorer.filters()
GetFilters ==
    /\ fview' = filters_view(fset)
    /\ fop' = [op |-> "filters", arg |-> PyInt(0), exc |-> "none", val |-> FALSE]
    /\ fprev' = fset
    /\ UNCHANGED <<fset, flogic>>

\* view.append(x) by the caller: on the list object itself it grows the
\* explorer's list, on a copy it does not
ViewAppend(x) ==
    /\ fview.held
    /\ Len(fview.items) < MaxFilters
    /\ fview' = [fview EXCEPT !.items = Append(fview.items, x)]
    /\ fset' = IF fview.alias THEN Append(fset, x) ELSE fset
    /\ fop' = [op |-> "view_append", arg |-> x, exc |-> "none", val |-> FALSE]
    /\ fprev' = fset
    /\ UNCHANGED flogic

\* explorer.apply_filters(Path(x))
ApplyFilters(x) ==
    /\ LET r == apply_filters(fset, Path(x), NoLib)
       IN  fop' = [op |-> "apply", arg |-> PyStr(x), exc |-> r.exc, val |-> r.val]
    /\ fprev' = fset
    /\ fview' = NoView
    /\ UNCHANGED <<fset, flogic>>

-----------------------------------------------------------------------------
(* explorers/core.py NiftiExplorer: the two-stage scan *)

\* NiftiExplorer(sub_pattern=..., file_pattern=..., filters=[...])
NiftiExplorer(sub_pattern, file_pattern, filters) ==
    [cls |-> "NiftiExplorer", sub_pattern |-> sub_pattern,
     pattern |-> file_pattern, patterns |-> Iterate(ensure_seq(file_pattern)),
     filters |-> filters]

\* every stage-1 match is kept, a regular file as well
SubjectsAnyEntry(root, sub_pattern, order) ==
    LET hit(c) == /\ c \in dirs \cup files
                  /\ Len(c) = Len(root.parts) + 1 /\ IsPrefix(root.parts, c)
                  /\ Reachable(c)
                  /\ FnMatch(sub_pattern, 1, c[Len(c)], 1)
        found == SelectSeq(Listing, hit)
    IN  IF order = "listed" THEN found ELSE Reverse(found)

\* stage 1 walks the whole tree below the root
SubjectsRecursive(root, sub_pattern, order) ==
    LET hit(c) == /\ c \in dirs \cup files
                  /\ c # root.parts /\ IsPrefix(root.parts, c)
                  /\ Reachable(c)
                  /\ FnMatch(sub_pattern, 1, c[Len(c)], 1)
                  /\ is_dir(c)
        found == SelectSeq(Listing, hit)
    IN  IF order = "listed" THEN found ELSE Reverse(found)

\* subjects = [p for p in root.glob(self._sub_pattern) if p.is_dir()], the
\* pattern a single name pattern: the matching entries directly in root that
\* are directories
Subjects(root, sub_pattern, order) ==
    LET hit(c) == /\ c \in dirs \cup files
                  /\ Len(c) = Len(root.parts) + 1 /\ IsPrefix(root.parts, c)
                  /\ Reachable(c)
                  /\ FnMatch(sub_pattern, 1, c[Len(c)], 1)
                  /\ is_dir(c)
        found == SelectSeq(Listing, hit)
    IN  IF order = "listed" THEN found ELSE Reverse(found)

\* NiftiExplorer(...) built by the caller
NewNiftiExplorer(sub_pattern, file_pattern, filters) ==
    /\ spc = "idle"
    /\ explorer' = NiftiExplorer(sub_pattern, file_pattern, filters)
    /\ UNCHANGED <<spc, sroot, slib, sorder, spi, spending, slog, sres, subjects, ssi>>

\* the first next() of a two-stage scan (progress left at False): the root is
\* resolved and checked and the stage-1 list is built in full
NiftiScanBegin ==
    /\ explorer.cls = "NiftiExplorer"
    /\ spc = "created"
    /\ LET root == resolve_path(Path(sroot))
       IN  IF ~is_dir(root.parts)
           THEN /\ spc' = "raised"
                /\ sres' = Raise("NotADirectoryError")
                /\ UNCHANGED subjects
           ELSE /\ spc' = "running"
                /\ subjects' = Subjects(root, explorer.sub_pattern, sorder)
                /\ UNCHANGED sres
    /\ UNCHANGED <<explorer, sroot, slib, sorder, spi, spending, slog, ssi>>

\* a walk is over (or none has begun): the next file pattern is walked below the
\* same stage-1 directory, or the first one below the next directory, or the
\* generator ends
NiftiScanNextWalk ==
    /\ explorer.cls = "NiftiExplorer"
    /\ spc = "running"
    /\ spending = <<>>
    /\ IF ssi >= 1 /\ spi < Len(explorer.patterns)
       THEN /\ spi' = spi + 1
            /\ spending' = rglob([abs |-> TRUE, parts |-> subjects[ssi]],
                                 explorer.patterns[spi + 1], sorder)
            /\ UNCHANGED <<spc, ssi>>
       ELSE IF ssi < Len(subjects) /\ explorer.patterns # <<>>
       THEN /\ ssi' = ssi + 1
            /\ spi' = 1
            /\ spending' = rglob([abs |-> TRUE, parts |-> subjects[ssi + 1]],
                                 explorer.patterns[1], sorder)
            /\ UNCHANGED spc
       ELSE /\ spc' = "exhausted"
            /\ UNCHANGED <<ssi, spi, spending>>
    /\ UNCHANGED <<explorer, sroot, slib, sorder, slog, sres, subjects>>

-----------------------------------------------------------------------------

(* explorers/mixins.py MaterializeMixin: list, count, first and batched pull   *)
(* from scan(); "iterate" is the caller's own `for path in explorer.scan(...)` *)

PyNone == [cls |-> "NoneType"]

NoConsumer == [kind |-> "none", arg |-> PyNone]

\* `limit is not None and len(items) >= limit` (`n >= limit` in count)
LimitReached(limit, n) == limit.cls # "NoneType" /\ n >= limit.num

\* a batch is handed out one path late
BatchFullLate(n, size) == n > size.num

\* `len(batch) >= size`
BatchFull(n, size) == n >= size.num

\* the consumer never stops of its own: it drains the generator
StopsNever(c, n) == FALSE

\* the consumer stops pulling once it holds n paths: first() after one path,
\* list and count at their limit; batched and a plain loop go on to the end
Stops(c, n) ==
    IF c.kind = "first" THEN n >= 1
    ELSE IF c.kind \in {"list", "count"} THEN LimitReached(c.arg, n)
    ELSE FALSE

\* what the method returns once its loop is over (first's Path | None is a
\* sequence of at most one path)
Returned(c, paths, bs) ==
    IF c.kind = "list" THEN Ret(paths)
    ELSE IF c.kind = "count" THEN Ret(PyInt(Len(paths)))
    ELSE IF c.kind = "first" THEN Ret(IF paths = <<>> THEN <<>> ELSE <<paths[1]>>)
    ELSE Ret(bs)

Limits == { PyNone, PyInt(0), PyInt(1), PyInt(2), PyInt(5) }
Sizes  == { PyInt(1), PyInt(2), PyInt(3) }

Consumers ==
    [kind : {"list", "count"}, arg : Limits]
      \cup [kind : {"batched"}, arg : Sizes]
      \cup [kind : {"first", "iterate"}, arg : {PyNone}]

MaterializePatterns == { <<"*.nii*">>, <<"t1*", "*.nii*">> }
NoSeg == ExcludeOf(NewFileSuffix("IncludeFileSuffix", "_seg"))
MaterializeFilterSets == { <<>>, <<NoSeg>> }
MaterializeRoots == { "/data", "/data/s1/ses-1", "/nowhere" }
SubPatterns == { "*", "s1", "t1*" }

MaterializeInit ==
    /\ consumer = NoConsumer
    /\ mpc = "none"
    /\ collected = <<>>
    /\ batches = <<>>
    /\ mres = Pending
    /\ started = <<>>

\* explorer.list(root, limit=k), .count(root, limit=k), .first(root),
\* .batched(root, size=s) or a loop over explorer.scan(root): the generator is
\* made and the consumer is about to pull from it
Materialize(c, root, order) ==
    /\ mpc = "none"
    /\ ScanCall(root, NoLib, order)
    /\ consumer' = c
    /\ mpc' = "pulling"
    /\ started' = explorer.filters
    /\ UNCHANGED <<collected, batches, mres>>

\* what the consumer does with the outcome of a step of the generator it pulls
\* from: an exception passes through it, a path is collected (and may end the
\* loop, or fill a batch), the end of the generator ends the method
Receive ==
    LET failed  == spc' = "raised"
        ended   == spc' = "exhausted"
        yielded == Len(slog') > Len(slog) /\ slog'[Len(slog')].yielded
        paths   == IF yielded THEN Append(collected, slog'[Len(slog')].path) ELSE collected
    IN  IF failed
        THEN /\ mpc' = "raised"
             /\ mres' = sres'
             /\ UNCHANGED <<collected, batches>>
        ELSE IF ended
        THEN /\ mpc' = "returned"
             /\ batches' = IF consumer.kind = "batched" /\ collected # <<>>
                           THEN Append(batches, collected) ELSE batches
             /\ collected' = IF consumer.kind = "batched" THEN <<>> ELSE collected
             /\ mres' = Returned(consumer, collected, batches')
        ELSE IF ~yielded
        THEN UNCHANGED <<mpc, collected, batches, mres>>
        ELSE IF consumer.kind = "batched"
        THEN /\ IF BatchFull(Len(paths), consumer.arg)
                THEN batches' = Append(batches, paths) /\ collected' = <<>>
                ELSE batches' = batches /\ collected' = paths
             /\ UNCHANGED <<mpc, mres>>
        ELSE /\ collected' = paths
             /\ batches' = batches
             /\ IF Stops(consumer, Len(paths))
                THEN mpc' = "returned" /\ mres' = Returned(consumer, paths, batches)
                ELSE /\ mpc' = IF consumer.kind = "iterate" THEN "holding" ELSE "pulling"
                     /\ mres' = mres

\* one step of the generator inside a next() of the consumer
PullBegin      == mpc = "pulling" /\ ScanBegin /\ Receive /\ UNCHANGED <<consumer, started>>
PullCandidate  == mpc = "pulling" /\ ScanCandidate /\ Receive /\ UNCHANGED <<consumer, started>>
PullNext       == mpc = "pulling" /\ ScanNextPattern /\ Receive /\ UNCHANGED <<consumer, started>>
PullNiftiBegin == mpc = "pulling" /\ NiftiScanBegin /\ Receive /\ UNCHANGED <<consumer, started>>
PullNiftiNext  == mpc = "pulling" /\ NiftiScanNextWalk /\ Receive /\ UNCHANGED <<consumer, started>>

\* the body of the caller's loop is over: it pulls again
Resume ==
    /\ mpc = "holding"
    /\ mpc' = "pulling"
    /\ UNCHANGED <<consumer, collected, batches, mres, started>>
    /\ UNCHANGED scanVars

\* in the body of its loop the caller changes the explorer's filters:
\* add_filters(x), remove_filters(x) or clear_filters()
MutateFilters(op, x) ==
    /\ mpc = "holding"
    /\ LET fs == explorer.filters
           r  == IF op = "add" THEN add_filters(fs, x)
                 ELSE IF op = "remove" THEN remove_filters(fs, x)
                 ELSE Outcome(<<>>, "none")
       IN  /\ Len(r.filters) <= MaxFilters
           /\ r.filters # fs
           /\ explorer' = [explorer EXCEPT !.filters = r.filters]
    /\ UNCHANGED <<spc, sroot, slib, sorder, spi, spending, slog, sres, subjects, ssi>>
    /\ UNCHANGED materializeVars

\* the method has returned or raised, or the caller leaves its loop early: the
\* generator is dropped
MaterializeReset ==
    /\ mpc \in {"holding", "returned", "raised"}
    /\ ScanClose
    /\ consumer' = NoConsumer
    /\ mpc' = "none"
    /\ collected' = <<>>
    /\ batches' = <<>>
    /\ mres' = Pending
    /\ started' = <<>>

-----------------------------------------------------------------------------

(* Specifications *)

\* one predicate and its Exclude twin evaluated on a tree the environment changes
Init == FsInit /\ UnitInit /\ ComposeInit /\ ScanInit /\ FilterSetInit /\ MaterializeInit

Next ==
    \/ \E d \in Volatile : FsRemove(d) /\ UNCHANGED <<unitVars, composeVars, scanVars, filterVars, materializeVars>>
    \/ \E d \in Volatile : FsReplaceByFile(d) /\ UNCHANGED <<unitVars, composeVars, scanVars, filterVars, materializeVars>>
    \/ \E d \in Volatile : FsDeny(d) /\ UNCHANGED <<unitVars, composeVars, scanVars, filterVars, materializeVars>>
    \/ \E f \in SimpleFilters, x \in SimplePaths : Construct(f, x) /\ UNCHANGED <<composeVars, scanVars, filterVars, materializeVars>>
    \/ \E f \in ExistsFilters, x \in ExistsPaths : Construct(f, x) /\ UNCHANGED <<composeVars, scanVars, filterVars, materializeVars>>
    \/ Evaluate /\ UNCHANGED <<composeVars, scanVars, filterVars, materializeVars>>
    \/ Discard /\ UNCHANGED <<composeVars, scanVars, filterVars, materializeVars>>

Spec == Init /\ [][Next]_vars

\* a ComposeFilter built, flattened and called
InitCompose == FsInit /\ UnitInit /\ ComposeInit /\ ScanInit /\ FilterSetInit /\ MaterializeInit

NextCompose ==
    \/ \E fs \in LeafSeqs, lg \in Logics : NewCompose(fs, lg) /\ UNCHANGED <<fsVars, unitVars, scanVars, filterVars, materializeVars>>
    \/ \E fs \in NestShapes(tree), lg \in Logics : Nest(fs, lg) /\ UNCHANGED <<fsVars, unitVars, scanVars, filterVars, materializeVars>>
    \/ Flatten /\ UNCHANGED <<fsVars, unitVars, scanVars, filterVars, materializeVars>>
    \/ \E x \in ComposePaths : CallStart(x) /\ UNCHANGED <<fsVars, unitVars, scanVars, filterVars, materializeVars>>
    \/ CallStep /\ UNCHANGED <<fsVars, unitVars, scanVars, filterVars, materializeVars>>
    \/ ComposeReset /\ UNCHANGED <<fsVars, unitVars, scanVars, filterVars, materializeVars>>

SpecCompose == InitCompose /\ [][NextCompose]_vars

\* a scan consumed step by step while the environment changes the tree
InitScan == FsInit /\ UnitInit /\ ComposeInit /\ ScanInit /\ FilterSetInit /\ MaterializeInit

NextScan ==
    \/ \E d \in Volatile : FsRemove(d) /\ UNCHANGED <<unitVars, composeVars, scanVars, filterVars, materializeVars>>
    \/ \E d \in Volatile : FsReplaceByFile(d) /\ UNCHANGED <<unitVars, composeVars, scanVars, filterVars, materializeVars>>
    \/ \E d \in Volatile : FsDeny(d) /\ UNCHANGED <<unitVars, composeVars, scanVars, filterVars, materializeVars>>
    \/ \E ps \in ScanPatterns, fs \in ScanFilterSets :
          NewExplorer(PyList(ps), fs) /\ UNCHANGED <<fsVars, unitVars, composeVars, filterVars, materializeVars>>
    \/ \E ps \in ScanStringPatterns, fs \in ScanFilterSets :
          NewExplorer(PyStr(ps), fs) /\ UNCHANGED <<fsVars, unitVars, composeVars, filterVars, materializeVars>>
    \/ \E r \in ScanRoots, lb \in ScanLibs, o \in Orders :
          ScanCall(r, lb, o) /\ UNCHANGED <<fsVars, unitVars, composeVars, filterVars, materializeVars>>
    \/ ScanBegin /\ UNCHANGED <<fsVars, unitVars, composeVars, filterVars, materializeVars>>
    \/ ScanCandidate /\ UNCHANGED <<fsVars, unitVars, composeVars, filterVars, materializeVars>>
    \/ ScanNextPattern /\ UNCHANGED <<fsVars, unitVars, composeVars, filterVars, materializeVars>>
    \/ ScanClose /\ UNCHANGED <<fsVars, unitVars, composeVars, filterVars, materializeVars>>

SpecScan == InitScan /\ [][NextScan]_vars

\* an explorer's filter list mutated, read and applied
InitFilterSet == FsInit /\ UnitInit /\ ComposeInit /\ ScanInit /\ FilterSetInit /\ MaterializeInit

NextFilterSet ==
    \/ \E lg \in Logics : NewFilterable(lg) /\ UNCHANGED <<fsVars, unitVars, composeVars, scanVars, materializeVars>>
    \/ \E x \in AddArgs : AddFilters(x) /\ UNCHANGED <<fsVars, unitVars, composeVars, scanVars, materializeVars>>
    \/ \E x \in RemoveArgs : RemoveFilters(x) /\ UNCHANGED <<fsVars, unitVars, composeVars, scanVars, materializeVars>>
    \/ ClearFilters /\ UNCHANGED <<fsVars, unitVars, composeVars, scanVars, materializeVars>>
    \/ GetFilters /\ UNCHANGED <<fsVars, unitVars, composeVars, scanVars, materializeVars>>
    \/ \E x \in SetFilters : ViewAppend(x) /\ UNCHANGED <<fsVars, unitVars, composeVars, scanVars, materializeVars>>
    \/ \E x \in ApplyPaths : ApplyFilters(x) /\ UNCHANGED <<fsVars, unitVars, composeVars, scanVars, materializeVars>>

SpecFilterSet == InitFilterSet /\ [][NextFilterSet]_vars

\* a scan, one-stage or two-stage, consumed through the materialising methods or
\* by the caller's own loop
InitMaterialize == FsInit /\ UnitInit /\ ComposeInit /\ ScanInit /\ FilterSetInit /\ MaterializeInit

NextMaterialize ==
    \/ \E ps \in MaterializePatterns, fs \in MaterializeFilterSets :
          /\ mpc = "none"
          /\ NewExplorer(PyList(ps), fs)
          /\ UNCHANGED <<fsVars, unitVars, composeVars, filterVars, materializeVars>>
    \/ \E sp \in SubPatterns, ps \in MaterializePatterns, fs \in MaterializeFilterSets :
          /\ mpc = "none"
          /\ NewNiftiExplorer(sp, PyList(ps), fs)
          /\ UNCHANGED <<fsVars, unitVars, composeVars, filterVars, materializeVars>>
    \/ \E c \in Consumers, r \in MaterializeRoots, o \in Orders :
          Materialize(c, r, o) /\ UNCHANGED <<fsVars, unitVars, composeVars, filterVars>>
    \/ PullBegin /\ UNCHANGED <<fsVars, unitVars, composeVars, filterVars>>
    \/ PullCandidate /\ UNCHANGED <<fsVars, unitVars, composeVars, filterVars>>
    \/ PullNext /\ UNCHANGED <<fsVars, unitVars, composeVars, filterVars>>
    \/ PullNiftiBegin /\ UNCHANGED <<fsVars, unitVars, composeVars, filterVars>>
    \/ PullNiftiNext /\ UNCHANGED <<fsVars, unitVars, composeVars, filterVars>>
    \/ Resume /\ UNCHANGED <<fsVars, unitVars, composeVars, filterVars>>
    \/ \E x \in {NoSeg} : MutateFilters("add", x) /\ UNCHANGED <<fsVars, unitVars, composeVars, filterVars>>
    \/ \E x \in {NoSeg} : MutateFilters("remove", x) /\ UNCHANGED <<fsVars, unitVars, composeVars, filterVars>>
    \/ MutateFilters("clear", PyNone) /\ UNCHANGED <<fsVars, unitVars, composeVars, filterVars>>
    \/ MaterializeReset /\ UNCHANGED <<fsVars, unitVars, composeVars, filterVars>>

SpecMaterialize == InitMaterialize /\ [][NextMaterialize]_vars

-----------------------------------------------------------------------------
(* Claims about the unit predicates *)

\* C1: for each Include/Exclude pair built with the same parameters and every
\* path, the Exclude variant returns the negation of what the Include variant
\* returns (and raises exactly when the Include variant raises).
C1_ExcludeNegatesInclude ==
    phase = "done" =>
        /\ (incl.exc = "none" => excl.exc = "none" /\ excl.val = ~incl.val)
        /\ (incl.exc # "none" => excl.exc = incl.exc)

\* a mirrored co-location pair whose Include variant is false because the file
\* lies outside mirror_relative_to, so that the Exclude variant accepts
C1_Witness ==
    /\ phase = "done"
    /\ flt.cls = "IncludeIfFileExists"
    /\ target.exc = "ValueError"
    /\ incl = Ret(FALSE)
    /\ excl = Ret(TRUE)

\* the descriptor is read as mirrored / as self-relative by the mini-language
MirrorDescriptor(f) ==
    IsExistsFilter(f) /\ endswith(f.search_in, "--") /\ ~startswith(f.search_in, "--")
RelativeDescriptor(f) ==
    /\ IsExistsFilter(f) /\ startswith(f.search_in, "--") /\ f.search_in # "--"
    /\ ~startswith(removeprefix(f.search_in, "--"), "/")

\* the parent directory of the file under test, and the roots of the mirroring
ParentOfPath == Parent(Resolve(Path(path)))
SrcRootOf(f) == Resolve(Path(IF f.mirror_relative_to = "" THEN "/" ELSE f.mirror_relative_to))
MirrorRootOf(f) == Resolve(Path(removesuffix(f.search_in, "--")))
UnderSrcRoot(f) == IsPrefix(SrcRootOf(f).parts, ParentOfPath.parts)

\* C6: whatever the descriptor shape, a target directory that cannot be accessed
\* (missing, not a directory, permission denied) makes IncludeIfFileExists
\* return false, and the call never raises.
C6_AccessFailureYieldsFalse ==
    (phase = "done" /\ IsExistsFilter(flt) /\ target.exc = "none" /\ target.access # "ok")
        => incl = Ret(FALSE)

\* C8: with a mirrored descriptor and the file's parent under mirror_relative_to,
\* the target directory is the mirror root joined with the parent's path relative
\* to mirror_relative_to (/data/s1/ses-1/t1.nii.gz, /labels, /data: /labels/s1/ses-1).
C8_MirrorResolution ==
    (phase = "done" /\ MirrorDescriptor(flt) /\ UnderSrcRoot(flt)) =>
        /\ target.exc = "none"
        /\ target.val.abs
        /\ target.val.parts =
             MirrorRootOf(flt).parts
               \o SubSeq(ParentOfPath.parts, Len(SrcRootOf(flt).parts) + 1, Len(ParentOfPath.parts))
        /\ (path = "/data/s1/ses-1/t1.nii.gz" /\ flt.search_in = "/labels--"
              /\ flt.mirror_relative_to = "/data") => Str(target.val) = "/labels/s1/ses-1"

C8_Witness ==
    /\ phase = "done"
    /\ path = "/data/s1/ses-1/t1.nii.gz"
    /\ flt.cls = "IncludeIfFileExists"
    /\ flt.search_in = "/labels--"
    /\ flt.mirror_relative_to = "/data"
    /\ Str(target.val) = "/labels/s1/ses-1"

\* C9: a mirrored co-location predicate returns false, and does not raise, for
\* every path whose parent is not under mirror_relative_to, whatever the mirror
\* root holds.
C9_MirrorOutsideYieldsFalse ==
    (phase = "done" /\ MirrorDescriptor(flt) /\ ~UnderSrcRoot(flt)) => incl = Ret(FALSE)

\* the file lies outside mirror_relative_to while the mirror root cannot even be
\* entered and pathlib would raise on it
C9_Witness ==
    /\ phase = "done"
    /\ MirrorDescriptor(flt)
    /\ ~UnderSrcRoot(flt)
    /\ Parts("/labels") \in denied
    /\ lib.eacces = "raise"
    /\ incl = Ret(FALSE)

\* C10: with the self-token followed by a relative path r the target directory is
\* the file's parent joined with r, normalised (/data/s1/ses-1/t1.nii.gz with
\* "--../labels": /data/s1/labels); the self-token alone gives the file's parent.
C10_RelativeResolution ==
    /\ (phase = "done" /\ RelativeDescriptor(flt)) =>
          /\ target.exc = "none"
          /\ target.val.abs
          /\ target.val.parts =
               Collapse(ParentOfPath.parts \o Parts(removeprefix(flt.search_in, "--")), <<>>)
          /\ (path = "/data/s1/ses-1/t1.nii.gz" /\ flt.search_in = "--../labels")
                => Str(target.val) = "/data/s1/labels"
    /\ (phase = "done" /\ IsExistsFilter(flt) /\ flt.search_in = "--") =>
          target.exc = "none" /\ target.val = ParentOfPath

C10_Witness ==
    /\ phase = "done"
    /\ path = "/data/s1/ses-1/t1.nii.gz"
    /\ flt.cls = "IncludeIfFileExists"
    /\ flt.search_in = "--../labels"
    /\ Str(target.val) = "/data/s1/labels"
    /\ incl = Ret(TRUE)

-----------------------------------------------------------------------------
(* Claims about ComposeFilter *)

\* C2: a ComposeFilter without children evaluates to the identity of its logic
\* on every path: true under AND, false under OR.
C2_EmptyComposeIsIdentity ==
    (cpc = "returned" /\ tree.filters = <<>>) =>
        /\ clog = <<>>
        /\ cres = Ret(tree.logic = "AND")

C2_Witness ==
    /\ cpc = "returned"
    /\ tree = ComposeFilter(<<>>, "OR")
    /\ cpath \in ComposePaths
    /\ cres = Ret(FALSE)

IsCompose(f) == f.cls = "ComposeFilter"

\* C3: flattening preserves the semantics: for every composite tree C and every
\* path x, C.flatten()(x) = C(x) (the same value, or the same exception).
C3_FlattenPreservesSemantics ==
    cpc = "flattened" =>
        \A x \in ComposePaths : Call(flat, Path(x), NoLib) = Call(tree, Path(x), NoLib)

\* a three-level tree where flattening spliced a same-logic child and kept a
\* child of the other logic as a sub-group
C3_Witness ==
    /\ cpc = "flattened"
    /\ Depth(tree) = 3
    /\ Len(flat.filters) > Len(tree.filters)
    /\ \E i \in 1..Len(flat.filters) : IsCompose(flat.filters[i])
    /\ \E x \in ComposePaths : Call(tree, Path(x), NoLib) = Ret(TRUE)
    /\ \E x \in ComposePaths : Call(tree, Path(x), NoLib) = Ret(FALSE)

\* C4: flatten is idempotent as a structure: C.flatten().flatten() has the logic
\* and the ordered children of C.flatten().
C4_FlattenIdempotent ==
    cpc = "flattened" =>
        /\ flatten(flat).logic = flat.logic
        /\ flatten(flat).filters = flat.filters

\* same-logic nesting two levels deep, all of it spliced by the first flatten
C4_Witness ==
    /\ cpc = "flattened"
    /\ \E i \in 1..Len(tree.filters) :
          /\ IsCompose(tree.filters[i]) /\ tree.filters[i].logic = tree.logic
          /\ \E j \in 1..Len(tree.filters[i].filters) :
                /\ IsCompose(tree.filters[i].filters[j])
                /\ tree.filters[i].filters[j].logic = tree.logic
                /\ Len(tree.filters[i].filters[j].filters) = 2
    /\ \A i \in 1..Len(flat.filters) : ~IsCompose(flat.filters[i])
    /\ Len(flat.filters) >= 3

\* C5: evaluation short-circuits: the children are evaluated in sequence order,
\* and every child evaluated before the last one returned the value that does
\* not decide the result (true under AND, false under OR), so that no child is
\* evaluated after the first false under AND or the first true under OR.
C5_ShortCircuit ==
    /\ \A k \in 1..Len(clog) :
          /\ clog[k].idx = k
          /\ k < Len(clog) => clog[k].res = Ret(tree.logic = "AND")
    /\ cpc = "returned" /\ clog # <<>> /\ Len(clog) < Len(tree.filters) =>
          \/ clog[Len(clog)].res.exc # "none"
          \/ clog[Len(clog)].res = Ret(tree.logic # "AND")

\* an AND of two children returned after its first child said false
C5_Witness ==
    /\ cpc = "returned"
    /\ tree.logic = "AND"
    /\ Len(tree.filters) = 2
    /\ Len(clog) = 1
    /\ clog[1].res = Ret(FALSE)
    /\ cres = Ret(FALSE)

\* the stepwise call returns what the composite's call returns as a whole
StepwiseAgrees == cpc = "returned" => cres = Call(tree, Path(cpath), NoLib)

-----------------------------------------------------------------------------
(* Claims about the scan *)

FilesystemErrors == {"PermissionError", "FileNotFoundError"}

\* C7: during a scan no filesystem error met while a predicate is evaluated on a
\* candidate reaches the consumer, and a candidate on which a co-location
\* predicate (Include or Exclude variant) met an access failure is not yielded.
C7_ScanSwallowsFilesystemErrors ==
    /\ spc = "raised" => sres.exc \notin FilesystemErrors
    /\ \A k \in 1..Len(slog) : slog[k].failure => ~slog[k].yielded

\* the part of C7 about the error reaching the consumer
ScanNeverRaisesFilesystemError == spc = "raised" => sres.exc \notin FilesystemErrors

\* the part of C7 about the candidate being left out
ScanFailureExcludes == \A k \in 1..Len(slog) : slog[k].failure => ~slog[k].yielded

-----------------------------------------------------------------------------
(* Claims about the co-location predicate's listing *)

\* the pattern the target directory is listed with
CandidatePattern ==
    IF flt.filename_pattern = "--" THEN Name(Resolve(Path(path))) ELSE flt.filename_pattern

\* the regular files (the directories) directly in the target directory whose
\* name matches the candidate pattern
MatchingFiles ==
    { c \in files : /\ Len(c) = Len(target.val.parts) + 1
                    /\ SubSeq(c, 1, Len(c) - 1) = target.val.parts
                    /\ FnMatch(CandidatePattern, 1, c[Len(c)], 1) }
MatchingDirs ==
    { c \in dirs : /\ Len(c) = Len(target.val.parts) + 1
                   /\ SubSeq(c, 1, Len(c) - 1) = target.val.parts
                   /\ FnMatch(CandidatePattern, 1, c[Len(c)], 1) }

\* C11: on a target directory that can be listed, IncludeIfFileExists returns
\* true iff the directory holds at least one regular file matching the candidate
\* pattern (the file's own name under the self-token, else the configured glob);
\* matching directories do not count. The result is compared with the tree the
\* call ran on: no change of the tree has happened since (target.gen).
C11_TrueIffMatchingRegularFile ==
    (/\ phase = "done" /\ IsExistsFilter(flt)
     /\ target.exc = "none" /\ target.access = "ok"
     /\ target.gen = fsChanges)
        => incl = Ret(MatchingFiles # {})

\* the only match in the target directory is a directory: the predicate is false
C11_Witness ==
    /\ phase = "done"
    /\ IsExistsFilter(flt)
    /\ target.exc = "none" /\ target.access = "ok"
    /\ target.gen = fsChanges
    /\ MatchingDirs # {}
    /\ MatchingFiles = {}
    /\ incl = Ret(FALSE)

\* the self-token as filename pattern: the file finds itself in its own directory
C11_SelfTokenSeen ==
    /\ phase = "done"
    /\ IsExistsFilter(flt) /\ flt.filename_pattern = "--" /\ flt.search_in = "--"
    /\ incl = Ret(TRUE)

-----------------------------------------------------------------------------
(* Claims about the explorer's filter list *)

\* the predicate accepts the path
Accepts(f, x) == Call(f, Path(x), NoLib) = Ret(TRUE)

\* C12: apply_filters(path) is the reduction of the current predicates under the
\* configured logic (AND: all accept, OR: at least one accepts), and it is true on
\* every path when there is no predicate, whichever the logic.
C12_ApplyIsConfiguredReduction ==
    fop.op = "apply" =>
        /\ fop.exc = "none"
        /\ fop.val = IF fset = <<>> THEN TRUE
                     ELSE IF flogic = "AND"
                     THEN \A i \in 1..Len(fset) : Accepts(fset[i], fop.arg.text)
                     ELSE \E i \in 1..Len(fset) : Accepts(fset[i], fop.arg.text)

\* the AND half of C12, and the empty list under both logics
ApplyIsConjunction ==
    fop.op = "apply" =>
        /\ fop.exc = "none"
        /\ fop.val = \A i \in 1..Len(fset) : Accepts(fset[i], fop.arg.text)

\* every member of the list is a Filter
AllFilters(items) == \A i \in 1..Len(items) : IsFilter(items[i])

\* C13: filters() returns the predicates held, in insertion order: adding one
\* predicate appends it, adding a sequence appends its members in sequence order,
\* clear_filters leaves the list empty.
C13_FiltersInInsertionOrder ==
    /\ (fop.op = "add" /\ IsFilter(fop.arg)) =>
          fop.exc = "none" /\ fset = Append(fprev, fop.arg)
    /\ (fop.op = "add" /\ IsList(fop.arg) /\ AllFilters(fop.arg.items)) =>
          fop.exc = "none" /\ fset = fprev \o fop.arg.items
    /\ fop.op = "clear" => fset = <<>>
    /\ fop.op = "filters" => fview.items = fset /\ fset = fprev

\* a sequence of two added to a list that held one
C13_Witness ==
    /\ fop.op = "add"
    /\ fop.arg = PyList(<<FilterB, FilterA>>)
    /\ fprev = <<FilterC>>
    /\ fset = <<FilterC, FilterB, FilterA>>

\* the list without its member at (1-based) position i
Without(q, i) == SubSeq(q, 1, i - 1) \o SubSeq(q, i + 1, Len(q))

\* C14: remove_filters(i) with an integer position removes the predicate at that
\* position (negative positions count from the end) and keeps the others in
\* order; a position out of range is rejected with a failure.
C14_RemoveByPosition ==
    (fop.op = "remove" /\ fop.arg.cls = "int") =>
        LET n == fop.arg.num
            len == Len(fprev)
        IN  IF -len <= n /\ n < len
            THEN /\ fop.exc = "none"
                 /\ fset = Without(fprev, IF n < 0 THEN len + n + 1 ELSE n + 1)
            ELSE fop.exc # "none" /\ fset = fprev

\* C15: remove_filters(p) with a predicate removes by value one predicate equal
\* to p and keeps the rest in order; it fails when no predicate equal to p is held.
C15_RemoveByValue ==
    (fop.op = "remove" /\ IsFilter(fop.arg)) =>
        IF \E i \in 1..Len(fprev) : fprev[i] = fop.arg
        THEN /\ fop.exc = "none"
             /\ \E i \in 1..Len(fprev) : fprev[i] = fop.arg /\ fset = Without(fprev, i)
        ELSE fop.exc # "none" /\ fset = fprev

\* a predicate built anew from the same parameters removes the one held
C15_Witness ==
    /\ fop.op = "remove"
    /\ fop.arg = NewExtension("IncludeExtension", ".nii.gz")
    /\ fop.exc = "none"
    /\ fprev = <<FilterB, FilterA, FilterC>>
    /\ fset = <<FilterB, FilterC>>

\* removing a predicate that is not held (its Exclude twin is not equal to it) fails
C15_AbsentSeen ==
    /\ fop.op = "remove"
    /\ fop.arg = NewExtension("ExcludeExtension", "nii.gz")
    /\ fprev = <<FilterA>>
    /\ fop.exc = "ValueError"

RECURSIVE HasNonFilter(_)
\* the argument is no predicate, or a list that holds something that is none
HasNonFilter(x) ==
    IF IsList(x) THEN \E i \in 1..Len(x.items) : HasNonFilter(x.items[i])
    ELSE ~IsFilter(x)

\* C16: add_filters and remove_filters reject a non-predicate argument, and a
\* sequence with a non-predicate member, with TypeError.
C16_NonPredicateRaisesTypeError ==
    /\ (fop.op = "add" /\ HasNonFilter(fop.arg)) => fop.exc = "TypeError"
    /\ (fop.op = "remove" /\ HasNonFilter(fop.arg) /\ fop.arg.cls # "int") => fop.exc = "TypeError"

\* the part of C16 that holds: such an argument is rejected
NonPredicateRejected ==
    (fop.op \in {"add", "remove"} /\ HasNonFilter(fop.arg)) => fop.exc # "none"

\* C17: filters() returns an immutable view: nothing done to the returned value
\* changes the explorer's own list.
C17_ViewIsImmutable ==
    fop.op = "view_append" => fset = fprev

-----------------------------------------------------------------------------
(* Claims about construction *)

IsRegexFilter(f) == f.cls \in {"IncludeFileRegex", "IncludeDirectoryRegex"}

\* C18: a name-regex or directory-regex predicate (Include or Exclude variant)
\* with a malformed regular expression fails at construction: no such predicate
\* is ever built, and no evaluation raises the regex error.
C18_MalformedRegexFailsAtConstruction ==
    /\ (phase \in {"ready", "done"} /\ IsRegexFilter(flt)) => ~ReMalformed(flt.regex)
    /\ phase = "done" => incl.exc # "re.error" /\ excl.exc # "re.error"

\* the part of C18 about the first evaluation
RegexErrorNeverAtEvaluation ==
    phase = "done" => incl.exc # "re.error" /\ excl.exc # "re.error"

-----------------------------------------------------------------------------
(* Claims about what a scan yields *)

\* the root the running scan walks
ScanRoot == Resolve(Path(sroot))

\* c is a regular file below the root whose name matches the i-th pattern and
\* which the explorer's filters accept
ExpectedMatch(c, i) ==
    /\ c \in files
    /\ Len(c) > Len(ScanRoot.parts)
    /\ SubSeq(c, 1, Len(ScanRoot.parts)) = ScanRoot.parts
    /\ FnMatch(explorer.patterns[i], 1, c[Len(c)], 1)
    /\ \A j \in 1..Len(explorer.filters) :
          Call(explorer.filters[j], [abs |-> TRUE, parts |-> c], slib) = Ret(TRUE)

\* how many times the walk of the i-th pattern yielded c
TimesYielded(c, i) ==
    Cardinality({ k \in 1..Len(slog) :
                    slog[k].yielded /\ slog[k].pattern = i /\ slog[k].path = c })

\* C19: on a tree that stays as it is, a single-stage scan with patterns p1..pk
\* yields, pattern after pattern in their order, each regular file below the root
\* that matches the pattern and that the filters accept, once per pattern that
\* matches it, and nothing else.
C19_ScanYieldsPerPattern ==
    (spc = "exhausted" /\ fsChanges = 0) =>
        /\ \A k \in 1..(Len(slog) - 1) : slog[k].pattern <= slog[k + 1].pattern
        /\ \A i \in 1..Len(explorer.patterns) : \A c \in dirs \cup files :
              TimesYielded(c, i) = IF ExpectedMatch(c, i) THEN 1 ELSE 0
        /\ \A k \in 1..Len(slog) : slog[k].pattern \in 1..Len(explorer.patterns)

\* two overlapping patterns and a filter that rejects some matches: the one
\* accepted file comes out twice
C19_Witness ==
    /\ spc = "exhausted" /\ fsChanges = 0
    /\ explorer.patterns = <<"t1*", "*.nii*">>
    /\ explorer.filters = <<MirrorSeg>>
    /\ Yielded = << Parts("/data/s1/ses-1/t1.nii.gz"), Parts("/data/s1/ses-1/t1.nii.gz") >>

\* a match below a sub-directory that is a directory is looked at and not yielded
C19_DirectoryMatchSeen ==
    /\ spc = "exhausted" /\ fsChanges = 0
    /\ \E k \in 1..Len(slog) : ~slog[k].is_file /\ ~slog[k].yielded

\* what a scan over the one pattern p yields on the tree as it stands
ScanOfOnePattern(p) ==
    SelectSeq(rglob(ScanRoot, p, sorder),
              LAMBDA c : is_file(c)
                           /\ apply_filters(explorer.filters, [abs |-> TRUE, parts |-> c], slib)
                                = Ret(TRUE))

\* C20: an explorer built with a single string pattern p treats it as one glob
\* pattern: on a tree that stays as it is its scan yields the sequence that an
\* explorer built with the list [p] yields.
C20_StringPatternIsOnePattern ==
    (spc = "exhausted" /\ fsChanges = 0 /\ explorer.pattern.cls = "str") =>
        Yielded = ScanOfOnePattern(explorer.pattern.text)

\* the part of C20 that holds: a string of one character
OneCharStringIsOnePattern ==
    (spc = "exhausted" /\ fsChanges = 0 /\ explorer.pattern.cls = "str"
       /\ Len(explorer.pattern.text) = 1) =>
        Yielded = ScanOfOnePattern(explorer.pattern.text)

-----------------------------------------------------------------------------
(* Claims about rejected mutations of the filter list *)

\* C30: a rejected mutation leaves the filter list unchanged: when add_filters
\* or remove_filters fails (a non-predicate member, a member that is not
\* present), filters() afterwards equals filters() before the call.
C30_RejectedMutationLeavesListUnchanged ==
    (fop.op \in {"add", "remove"} /\ fop.exc # "none") => fset = fprev

\* the part of C30 that holds: a rejected argument that is no list changes nothing
RejectedScalarLeavesListUnchanged ==
    (fop.op \in {"add", "remove"} /\ fop.exc # "none" /\ ~IsList(fop.arg)) => fset = fprev

-----------------------------------------------------------------------------
(* Claims about the structure flatten() returns *)

RECURSIVE SplicedChildren(_, _)
\* the children read left to right, each composite of the given logic replaced
\* by its own children read the same way, everything else kept as it is
SplicedChildren(filters, logic) ==
    IF filters = <<>> THEN <<>>
    ELSE LET f == Head(filters)
         IN  (IF IsCompose(f) /\ f.logic = logic
              THEN SplicedChildren(f.filters, logic) ELSE <<f>>)
               \o SplicedChildren(Tail(filters), logic)

\* C25: flatten() replaces every child composite of the same logic by that
\* child's own children, recursively and in left-to-right order, keeps every
\* child composite of the other logic as the identical sub-group, and so leaves
\* no direct child that is a composite of the result's logic.
C25_FlattenSplicesSameLogicInOrder ==
    cpc = "flattened" =>
        /\ flat.logic = tree.logic
        /\ flat.filters = SplicedChildren(tree.filters, tree.logic)
        /\ \A i \in 1..Len(tree.filters) :
              (IsCompose(tree.filters[i]) /\ tree.filters[i].logic # tree.logic)
                 => \E j \in 1..Len(flat.filters) : flat.filters[j] = tree.filters[i]
        /\ \A j \in 1..Len(flat.filters) :
              ~(IsCompose(flat.filters[j]) /\ flat.filters[j].logic = flat.logic)

\* a same-logic child with a leaf on either side of the nesting was spliced in
\* order, and a child of the other logic that itself holds a composite was kept
C25_Witness ==
    /\ cpc = "flattened"
    /\ \E i \in 1..Len(tree.filters) :
          /\ IsCompose(tree.filters[i]) /\ tree.filters[i].logic = tree.logic
          /\ Len(tree.filters[i].filters) >= 2
    /\ Len(flat.filters) >= 3
    /\ \E j, k \in 1..Len(flat.filters) : j < k /\ flat.filters[j] # flat.filters[k]
    /\ flat.filters = SplicedChildren(tree.filters, tree.logic)

\* a child of the other logic holding a composite of the parent's logic stays whole
C25_OpaqueChildSeen ==
    /\ cpc = "flattened"
    /\ \E i \in 1..Len(tree.filters) :
          /\ IsCompose(tree.filters[i]) /\ tree.filters[i].logic # tree.logic
          /\ \E j \in 1..Len(tree.filters[i].filters) :
                /\ IsCompose(tree.filters[i].filters[j])
                /\ tree.filters[i].filters[j].logic = tree.logic
          /\ \E j \in 1..Len(flat.filters) : flat.filters[j] = tree.filters[i]

-----------------------------------------------------------------------------
(* Claims about the file-name and directory-name predicates *)

\* the file name of the evaluated path with its full extension stripped
StrippedName == removesuffix(Name(Path(path)), get_ext(Path(path)))

\* C27: IncludeFilePrefix(p) accepts a path iff the file name with its full
\* extension stripped starts with p, and IncludeFileSuffix(s) accepts iff that
\* same stripped name ends with s.
C27_PrefixSuffixOnStrippedName ==
    phase = "done" =>
        /\ flt.cls = "IncludeFilePrefix" => incl = Ret(startswith(StrippedName, flt.prefix))
        /\ flt.cls = "IncludeFileSuffix" => incl = Ret(endswith(StrippedName, flt.suffix))

\* the suffix half of C27
SuffixOnStrippedName ==
    (phase = "done" /\ flt.cls = "IncludeFileSuffix")
        => incl = Ret(endswith(StrippedName, flt.suffix))

\* what the prefix predicate does: it tests the file name, extension included
PrefixOnFullName ==
    (phase = "done" /\ flt.cls = "IncludeFilePrefix")
        => incl = Ret(startswith(Name(Path(path)), flt.prefix))


\* the ancestors of the evaluated path, nearest first
AncestorsOfPath == Parents(Path(path))

\* C28: IncludeDirectoryRegex(r) accepts a path iff r matches, anchored at the
\* start and not required to reach the end, the name of at least one ancestor
\* directory of the path, the any-match way the directory-prefix and
\* directory-suffix predicates have.
C28_DirectoryRegexOnAncestorNames ==
    (phase = "done" /\ flt.cls = "IncludeDirectoryRegex" /\ ~ReMalformed(flt.regex))
        => incl = Ret(\E i \in 1..Len(AncestorsOfPath) :
                         re_match(flt.regex, Name(AncestorsOfPath[i])).val)

\* what the predicate does: the regex is matched against each ancestor's whole
\* path string
DirectoryRegexOnAncestorPaths ==
    (phase = "done" /\ flt.cls = "IncludeDirectoryRegex" /\ ~ReMalformed(flt.regex))
        => incl = Ret(\E i \in 1..Len(AncestorsOfPath) :
                         re_match(flt.regex, Str(AncestorsOfPath[i])).val)

\* the directory-prefix and directory-suffix predicates do test ancestor names
DirectoryPrefixSuffixOnAncestorNames ==
    phase = "done" =>
        /\ flt.cls = "IncludeDirectoryPrefix"
              => incl = Ret(\E i \in 1..Len(AncestorsOfPath) :
                               startswith(Name(AncestorsOfPath[i]), flt.prefix))
        /\ flt.cls = "IncludeDirectorySuffix"
              => incl = Ret(\E i \in 1..Len(AncestorsOfPath) :
                               endswith(Name(AncestorsOfPath[i]), flt.suffix))

-----------------------------------------------------------------------------
(* Claims about when a scan fails and how it is consumed *)

\* C22: scanning a root that does not exist or is not a directory fails when
\* scan is invoked on it, not later at the consumer's first pull, and no path is
\* yielded before the failure: no generator is ever handed out for such a root.
C22_BadRootFailsAtCall ==
    /\ spc = "created" => is_dir(ScanRoot.parts)
    /\ (spc = "raised" /\ sres = Raise("NotADirectoryError")) => Yielded = <<>>

\* the part of C22 that holds: nothing is yielded before the failure, which is
\* the first thing the generator does once it is pulled from
BadRootFailsBeforeAnyPath ==
    (spc = "raised" /\ sres = Raise("NotADirectoryError")) => slog = <<>>

-----------------------------------------------------------------------------
(* Claims about the two-stage scan *)

\* the entries directly in the scan's root whose name matches the stage-1 pattern
Stage1Matches ==
    { c \in dirs \cup files : /\ Len(c) = Len(ScanRoot.parts) + 1
                              /\ IsPrefix(ScanRoot.parts, c)
                              /\ FnMatch(explorer.sub_pattern, 1, c[Len(c)], 1) }

\* the stage-1 list of a two-stage scan has been built
Stage1Done == explorer.cls = "NiftiExplorer" /\ spc \in {"running", "exhausted"}

\* C21: a two-stage scan enumerates stage-1 matches directly under the root, not
\* recursively, and skips every stage-1 match that is not a directory: such a
\* match contributes no yielded path, and every yielded path lies inside some
\* stage-1 directory match.
C21_TwoStageSkipsNonDirectories ==
    Stage1Done =>
        /\ { subjects[i] : i \in 1..Len(subjects) } = Stage1Matches \cap dirs
        /\ \A k \in 1..Len(Yielded) :
              /\ \E d \in Stage1Matches \cap dirs :
                    IsPrefix(d, Yielded[k]) /\ Len(Yielded[k]) > Len(d)
              /\ \A f \in Stage1Matches \cap files : ~IsPrefix(f, Yielded[k])
        /\ \A k \in 1..Len(slog) :
              slog[k].subject \in 1..Len(subjects)
                 /\ IsPrefix(subjects[slog[k].subject], slog[k].path)

\* a finished two-stage scan whose stage 1 matched a regular file that the file
\* pattern matches too, next to a directory it yielded a path from
C21_Witness ==
    /\ Stage1Done /\ spc = "exhausted"
    /\ \E f \in Stage1Matches \cap files :
          \E i \in 1..Len(explorer.patterns) : FnMatch(explorer.patterns[i], 1, f[Len(f)], 1)
    /\ Stage1Matches \cap dirs # {}
    /\ Yielded # <<>>

\* stage 1 matched regular files only: the scan ends without a path
C21_OnlyFilesMatchedSeen ==
    /\ Stage1Done /\ spc = "exhausted"
    /\ Stage1Matches # {} /\ Stage1Matches \cap dirs = {}
    /\ slog = <<>>

\* a directory deeper in the tree matches the stage-1 pattern and is no stage-1
\* directory
C21_DeeperMatchSeen ==
    /\ Stage1Done /\ spc = "exhausted" /\ subjects # <<>>
    /\ \E c \in dirs : /\ IsPrefix(ScanRoot.parts, c) /\ Len(c) > Len(ScanRoot.parts) + 1
                       /\ FnMatch(explorer.sub_pattern, 1, c[Len(c)], 1)

-----------------------------------------------------------------------------
(* Claims about the materialising methods *)

RECURSIVE Concatenated(_)
\* the batches put end to end
Concatenated(bs) == IF bs = <<>> THEN <<>> ELSE Head(bs) \o Concatenated(Tail(bs))

\* C23: for a batch size s >= 1 and a scan producing n paths, batched(size=s)
\* yields ceil(n/s) batches whose concatenation is the scan's sequence in
\* encounter order; every batch has s paths except the last, which has n mod s
\* when n is not a multiple of s; no empty batch is yielded.
C23_BatchedSplitsInOrder ==
    (mpc = "returned" /\ consumer.kind = "batched") =>
        LET n == Len(Yielded)
            s == consumer.arg.num
        IN  /\ mres = Ret(batches)
            /\ Len(batches) = (n + s - 1) \div s
            /\ Concatenated(batches) = Yielded
            /\ \A i \in 1..Len(batches) :
                  Len(batches[i]) = IF i < Len(batches) \/ n % s = 0 THEN s ELSE n % s
            /\ \A i \in 1..Len(batches) : batches[i] # <<>>

\* eight paths in batches of three: sizes 3, 3, 2
C23_Witness ==
    /\ mpc = "returned" /\ consumer.kind = "batched" /\ consumer.arg.num = 3
    /\ Len(Yielded) = 8
    /\ Len(batches) = 3
    /\ Len(batches[1]) = 3 /\ Len(batches[2]) = 3 /\ Len(batches[3]) = 2

\* four paths in batches of two: no short batch, no empty one
C23_ExactMultipleSeen ==
    /\ mpc = "returned" /\ consumer.kind = "batched" /\ consumer.arg.num = 2
    /\ Len(Yielded) = 4
    /\ Len(batches) = 2

\* a scan without a path: no batch at all
C23_NoPathSeen ==
    /\ mpc = "returned" /\ consumer.kind = "batched"
    /\ Yielded = <<>> /\ batches = <<>> /\ slog # <<>>


RECURSIVE AcceptedOf(_)
\* of a walk's matches, the regular files the explorer's filters accept
AcceptedOf(matches) ==
    IF matches = <<>> THEN <<>>
    ELSE LET c == Head(matches)
             p == [abs |-> TRUE, parts |-> c]
         IN  (IF is_file(c) /\ apply_filters(explorer.filters, p, slib) = Ret(TRUE)
              THEN <<c>> ELSE <<>>) \o AcceptedOf(Tail(matches))

RECURSIVE WalksFrom(_, _)
\* the paths yielded by the walks of dir with the file patterns from the i-th on
WalksFrom(dir, i) ==
    IF i > Len(explorer.patterns) THEN <<>>
    ELSE AcceptedOf(rglob(dir, explorer.patterns[i], sorder)) \o WalksFrom(dir, i + 1)

RECURSIVE SubjectWalksFrom(_, _)
SubjectWalksFrom(subj, j) ==
    IF j > Len(subj) THEN <<>>
    ELSE WalksFrom([abs |-> TRUE, parts |-> subj[j]], 1) \o SubjectWalksFrom(subj, j + 1)

\* the whole sequence of paths the scan made produces when it is drained
ScanSequence ==
    IF ~is_dir(ScanRoot.parts) THEN <<>>
    ELSE IF explorer.cls = "NiftiExplorer"
         THEN SubjectWalksFrom(Subjects(ScanRoot, explorer.sub_pattern, sorder), 1)
         ELSE WalksFrom(ScanRoot, 1)

Min(a, b) == IF a <= b THEN a ELSE b

\* how many paths a limit lets through, of n
Limited(limit, n) == IF limit.cls = "NoneType" THEN n ELSE Min(limit.num, n)

\* C24: for every limit k >= 0 and a scan producing n paths, list(limit=k)
\* returns the first min(k, n) paths of the scan in encounter order and
\* count(limit=k) returns min(k, n); without a limit they return all n paths
\* and n.
C24_ListCountHonourLimit ==
    (mpc = "returned" /\ consumer.kind \in {"list", "count"}) =>
        LET m == Limited(consumer.arg, Len(ScanSequence))
        IN  mres = IF consumer.kind = "list"
                   THEN Ret(SubSeq(ScanSequence, 1, m)) ELSE Ret(PyInt(m))

\* the part of C24 that holds: limits of at least 1, and no limit
ListCountHonourPositiveLimit ==
    (/\ mpc = "returned" /\ consumer.kind \in {"list", "count"}
     /\ (consumer.arg.cls = "NoneType" \/ consumer.arg.num >= 1)) =>
        LET m == Limited(consumer.arg, Len(ScanSequence))
        IN  mres = IF consumer.kind = "list"
                   THEN Ret(SubSeq(ScanSequence, 1, m)) ELSE Ret(PyInt(m))

\* a drained scan yielded exactly the sequence the limits are measured against
DrainedScanIsScanSequence ==
    (spc = "exhausted" /\ consumer.kind # "iterate") => Yielded = ScanSequence


\* the consumer has stopped pulling before the generator ended: first() with a
\* path, list and count at their limit, or the caller's loop holding a path
StoppedEarly ==
    \/ mpc = "holding"
    \/ /\ mpc = "returned"
       /\ \/ consumer.kind = "first" /\ mres # Ret(<<>>)
          \/ /\ consumer.kind \in {"list", "count"}
             /\ consumer.arg.cls = "int" /\ Len(Yielded) >= consumer.arg.num
             /\ Len(Yielded) >= 1

\* C26: the scan is pull-based: the engine evaluates candidates only up to and
\* including the next accepted path, and once the consumer has stopped pulling
\* (after first(), or when list or count reach their limit) no further predicate
\* is evaluated and no further directory is listed for that scan: whenever the
\* consumer is not pulling, the last candidate looked at is the path it was
\* handed last, the generator is neither ended nor moved to another walk, and
\* the consumer holds every path that was yielded.
C26_ScanIsPullBased ==
    StoppedEarly =>
        /\ spc = "running"
        /\ slog # <<>> /\ slog[Len(slog)].yielded
        /\ slog[Len(slog)].pattern = spi /\ slog[Len(slog)].subject = ssi
        /\ Yielded = collected
        /\ consumer.kind = "first" => Len(Yielded) = 1

\* first() returned a path after the engine had turned down a candidate, with
\* candidates and paths of the scan still to come
C26_Witness ==
    /\ StoppedEarly /\ mpc = "returned" /\ consumer.kind = "first"
    /\ Len(slog) >= 2
    /\ spending # <<>>
    /\ Len(ScanSequence) > 1

\* list(limit=2) stopped with paths of the scan left unpulled
C26_LimitStopSeen ==
    /\ StoppedEarly /\ mpc = "returned" /\ consumer = [kind |-> "list", arg |-> PyInt(2)]
    /\ Len(ScanSequence) > 2

-----------------------------------------------------------------------------
(* Claims about changing the filters under a running scan *)

\* C29: acceptance decisions of a scan are made against a snapshot of the
\* predicate list: when the consumer interleaves pulls from a lazy scan with
\* add_filters, remove_filters or clear_filters on the same explorer, the paths
\* yielded later are still decided by the predicates present when the scan
\* started.
C29_ScanDecidesOnSnapshot ==
    \A k \in 1..Len(slog) :
        slog[k].is_file =>
            slog[k].res = apply_filters(started, [abs |-> TRUE, parts |-> slog[k].path], slib)

\* what the scan does: every candidate is decided by the list as it stands when
\* the candidate is looked at
DecidedByCurrentList ==
    [][ (Len(slog') > Len(slog) /\ slog'[Len(slog')].is_file) =>
           slog'[Len(slog')].res
              = apply_filters(explorer.filters,
                              [abs |-> TRUE, parts |-> slog'[Len(slog')].path], slib) ]_vars

=============================================================================
